---- MODULE Spec2Model ----
(***************************************************************************)
(* Recipe chat system: the conversation state machine                      *)
(* (ChatService.process_user_message), the structured-query merge          *)
(* (ChatService.merge_recipe_query_v2), the LLM extraction boundary        *)
(* (LLMService), the hybrid search (RecipeService) and the chat endpoint   *)
(* (routers/chat.py).                                                      *)
(***************************************************************************)
EXTENDS Integers, Sequences, FiniteSets, TLC

(***************************************************************************)
(* State.                                                                  *)
(***************************************************************************)
VARIABLES
    \* ChatService.conversation_states: conversation id -> ConversationState
    conversation_states,
    \* the last call made on the ChatService, what it gave its caller, and the
    \* external (LLM) calls it made
    request, processed, llm_calls,
    \* merge_recipe_query_v2 on its own: its arguments and its result
    base, patch, merge_result,
    \* the conversations and messages tables as committed, and the HTTP
    \* response to the last request
    db, response,
    \* the last call of search_recipes_ingredients_first
    search_call,
    \* the calls of the two resolvers made on their own, in order
    resolver_calls,
    \* the runs of process_user_message under way at once on one
    \* conversation (where each stands and what it holds), and how they are
    \* scheduled
    tasks, schedule

cvars == <<conversation_states, request, processed, llm_calls>>
mvars == <<base, patch, merge_result>>
evars == <<db, response, search_call>>
rvars == <<resolver_calls>>
tvars == <<tasks, schedule>>
vars == <<conversation_states, request, processed, llm_calls, base, patch, merge_result,
          db, response, search_call, resolver_calls, tasks, schedule>>

(***************************************************************************)
(* Bounds of the model.                                                    *)
(***************************************************************************)
\* Ingredient terms are 1..NumTerms; the integer order is the order Python
\* gives the strings (sorted() compares str by code point).
NumTerms == 2
\* Most ingredient entries one RecipeQuery lists (include plus exclude).
MaxIngr == 2

(***************************************************************************)
(* Program constants.                                                      *)
(***************************************************************************)
\* RecipeQuery.count: default=5, and the sentinel of the merge.
DefaultCount == 5

Terms == 1..NumTerms
\* RecipeQuery.query: the free-text intent.
Texts == {"pasta", "tacos"}
\* RecipeQuery.count values (all within ge=1, le=10).
Counts == {DefaultCount, 7}
\* Python None (a record, so that it compares with records and tuples).
None == [none |-> TRUE]

(***************************************************************************)
(* Python lists and sets of terms.                                         *)
(***************************************************************************)
SeqsUpTo(S, n) == UNION {[1..k -> S] : k \in 0..n}

\* set(list)
ToSet(s) == {s[i] : i \in 1..Len(s)}

\* The permutations of the terms: the orders in which a set of str may be
\* iterated (str hashes are salted per process; the order is unspecified).
HashOrders == {o \in [1..NumTerms -> Terms] : ToSet(o) = Terms}

\* list(S), [... for x in S]: S enumerated in the run's iteration order.
ListOf(S, order) == SelectSeq(order, LAMBDA t : t \in S)

\* sorted(): insertion of one element into an ascending list.
RECURSIVE Insert(_, _)
Insert(x, s) ==
    IF s = <<>> THEN <<x>>
    ELSE IF x <= Head(s) THEN <<x>> \o s
    ELSE <<Head(s)>> \o Insert(x, Tail(s))

RECURSIVE SortedList(_)
SortedList(s) == IF s = <<>> THEN <<>> ELSE Insert(Head(s), SortedList(Tail(s)))

\* sorted(S) for a set S
Sorted(S, order) == SortedList(ListOf(S, order))

(***************************************************************************)
(* schemas.RecipeQuery                                                     *)
(***************************************************************************)
RecipeQuery(q, inc, exc, n) ==
    [query |-> q, include_ingredients |-> inc, exclude_ingredients |-> exc, count |-> n]

IngredientLists ==
    {p \in SeqsUpTo(Terms, MaxIngr) \X SeqsUpTo(Terms, MaxIngr) :
        Len(p[1]) + Len(p[2]) <= MaxIngr}

\* What extract_recipe_query can return: any schema-valid RecipeQuery.
Queries ==
    {RecipeQuery(q, p[1], p[2], n) : q \in Texts, p \in IngredientLists, n \in Counts}

\* set(q.include_ingredients), set(q.exclude_ingredients)
IncludeSet(q) == ToSet(q.include_ingredients)
ExcludeSet(q) == ToSet(q.exclude_ingredients)

(***************************************************************************)
(* ChatService.merge_recipe_query_v2                                       *)
(***************************************************************************)
\* f"'{ing}' moved from include to exclude" / "... from exclude to include"
ConflictMsg(ing, direction) == <<ing, direction>>

\* [f"'{ing}' moved from ..." for ing in moving]
ConflictList(moving, direction) ==
    [i \in 1..Len(moving) |-> ConflictMsg(moving[i], direction)]

\* A slip: the count taken from every patch that differs from the base.
MergeCountChanged_NoSentinel(base_q, patch_q) == patch_q.count # base_q.count

\* if patch.count != 5 and patch.count != base.count
MergeCountChanged(base_q, patch_q) ==
    patch_q.count # DefaultCount /\ patch_q.count # base_q.count

\* moving_to_exclude = inc.intersection(p_exc)
MovingToExclude(inc, p_exc) == inc \cap p_exc

\* A slip: the reverse conflicts looked for after the changes are applied.
MovingToInclude_AfterApply(exc, p_inc) == (exc \ p_inc) \cap p_inc

\* moving_to_include = exc.intersection(p_inc)
MovingToInclude(exc, p_inc) == exc \cap p_inc

\* A slip: inc.update(p_inc) without inc.difference_update(p_exc).
MergedInclude_NoDifference(inc, p_inc, p_exc) == inc \cup p_inc

\* inc.update(p_inc); inc.difference_update(p_exc)
MergedInclude(inc, p_inc, p_exc) == (inc \cup p_inc) \ p_exc

\* exc.update(p_exc); exc.difference_update(p_inc)
MergedExclude(exc, p_inc, p_exc) == (exc \cup p_exc) \ p_inc

\* A slip: the merge taking the text of the patch.
merge_recipe_query_v2_PatchText(base_q, patch_q, order) ==
    LET inc == ToSet(base_q.include_ingredients)
        exc == ToSet(base_q.exclude_ingredients)
        p_inc == ToSet(patch_q.include_ingredients)
        p_exc == ToSet(patch_q.exclude_ingredients)
        new_includes == p_inc \ inc
        new_excludes == p_exc \ exc
        moving_to_exclude == MovingToExclude(inc, p_exc)
        moving_to_include == MovingToInclude(exc, p_inc)
        changed == MergeCountChanged(base_q, patch_q)
    IN  [merged_query |->
            [query |-> patch_q.query,
             include_ingredients |-> Sorted(MergedInclude(inc, p_inc, p_exc), order),
             exclude_ingredients |-> Sorted(MergedExclude(exc, p_inc, p_exc), order),
             count |-> IF changed THEN patch_q.count ELSE base_q.count],
         changes |->
            [added_includes |-> ListOf(new_includes, order),
             removed_includes |-> ListOf(moving_to_exclude, order),
             added_excludes |-> ListOf(new_excludes, order),
             removed_excludes |-> ListOf(moving_to_include, order),
             count_changed |-> IF changed THEN <<base_q.count, patch_q.count>> ELSE None],
         conflicts |->
            ConflictList(ListOf(moving_to_exclude, order), "include to exclude")
            \o ConflictList(ListOf(moving_to_include, order), "exclude to include")]

\* updated = deepcopy(base); ...; return MergeResult(merged_query=updated, ...)
\* (updated.query is never assigned).
merge_recipe_query_v2(base_q, patch_q, order) ==
    LET inc == ToSet(base_q.include_ingredients)
        exc == ToSet(base_q.exclude_ingredients)
        p_inc == ToSet(patch_q.include_ingredients)
        p_exc == ToSet(patch_q.exclude_ingredients)
        new_includes == p_inc \ inc
        new_excludes == p_exc \ exc
        moving_to_exclude == MovingToExclude(inc, p_exc)
        moving_to_include == MovingToInclude(exc, p_inc)
        changed == MergeCountChanged(base_q, patch_q)
    IN  [merged_query |->
            [query |-> base_q.query,
             include_ingredients |-> Sorted(MergedInclude(inc, p_inc, p_exc), order),
             exclude_ingredients |-> Sorted(MergedExclude(exc, p_inc, p_exc), order),
             count |-> IF changed THEN patch_q.count ELSE base_q.count],
         changes |->
            [added_includes |-> ListOf(new_includes, order),
             removed_includes |-> ListOf(moving_to_exclude, order),
             added_excludes |-> ListOf(new_excludes, order),
             removed_excludes |-> ListOf(moving_to_include, order),
             count_changed |-> IF changed THEN <<base_q.count, patch_q.count>> ELSE None],
         conflicts |->
            ConflictList(ListOf(moving_to_exclude, order), "include to exclude")
            \o ConflictList(ListOf(moving_to_include, order), "exclude to include")]

(***************************************************************************)
(* schemas.TagsSemanticSchema                                              *)
(***************************************************************************)
EmptyTags ==
    [TIME_DURATION |-> "", DIFFICULTY_SCALE |-> "", SCALE |-> "", FREE_OF |-> "",
     DIETS |-> "", CUISINES_REGIONAL |-> "", MEAL_COURSES |-> "",
     PREPARATION_METHOD |-> ""]

(***************************************************************************)
(* LLMService: what the Ollama call gives back, and what the three         *)
(* operations make of it.                                                  *)
(***************************************************************************)
\* self.client.chat(...) raised (Ollama unreachable, timeout).
ClientError == [error |-> "client"]
\* The completion is not valid JSON for the schema: coerce_recipe /
\* coerce_tags / json.loads raise.
Malformed == [error |-> "malformed"]
ErrorReplies == {ClientError, Malformed}

\* Completions of the extraction prompt the conversation model draws from:
\* at most one ingredient, the first term, and a text with its count.
LLMQueries ==
    {q \in Queries :
        /\ Len(q.include_ingredients) + Len(q.exclude_ingredients) <= 1
        /\ IncludeSet(q) \cup ExcludeSet(q) \subseteq {1}
        /\ (q.query = "pasta") = (q.count = DefaultCount)}

\* Completions of the tag prompt the conversation model draws from.
LLMTags ==
    {[EmptyTags EXCEPT !.DIETS = "vegetarian", !.CUISINES_REGIONAL = "italian"],
     [EmptyTags EXCEPT !.CUISINES_REGIONAL = "mexican", !.TIME_DURATION = "quick"]}

\* Completions of the continuation prompt: {"continue": true, ...},
\* {"continue": false, ...}, a JSON object without the key.
ContinueReplies ==
    {[continue |-> TRUE, reason |-> "refines"], [continue |-> FALSE, reason |-> "new topic"],
     [reason |-> "unsure"]}

\* result.get("continue", False)
GetContinue(result) == IF "continue" \in DOMAIN result THEN result.continue ELSE FALSE

\* The exception of a call, and the value it returned.
Raised(fn) == [raised |-> TRUE, fn |-> fn]
Returned(v) == [raised |-> FALSE, value |-> v]

\* extract_recipe_query: try ... return result / except Exception: ... raise
extract_recipe_query(reply) ==
    IF reply \in ErrorReplies THEN Raised("extract_recipe_query") ELSE Returned(reply)

\* extract_tags: try ... return result / except Exception: ... raise
extract_tags(reply) ==
    IF reply \in ErrorReplies THEN Raised("extract_tags") ELSE Returned(reply)

\* A slip: check_continue re-raising like the two extractions do.
check_continue_Reraise(reply) ==
    IF reply \in ErrorReplies THEN Raised("check_continue") ELSE Returned(GetContinue(reply))

\* check_continue: result.get("continue", False) /
\* except Exception: ... return False, "Error in continuation check"
check_continue(reply) ==
    IF reply \in ErrorReplies THEN Returned(FALSE) ELSE Returned(GetContinue(reply))

(***************************************************************************)
(* ChatService: the conversation states and process_user_message.          *)
(***************************************************************************)
\* Most entries of one history, and the largest turn_counter, the model
\* lets a conversation grow to.
MaxHist == 2
MaxTurns == 2

\* user_message values
Messages == {"m1", "m2"}
\* conversation ids
ConvIds == {1}

\* ConversationState(conversation_id, turn_counter=0, current_recipe_query=None,
\*                   current_tags=None, history=[])
NewState ==
    [turn_counter |-> 0, current_recipe_query |-> None, current_tags |-> None,
     history |-> <<>>]

\* get_or_create_state
get_or_create_state(states, conversation_id) ==
    IF states[conversation_id] = None THEN NewState ELSE states[conversation_id]

\* A slip: one state object held under every conversation id.
StoreState_Shared(states, conversation_id, st) == [c \in DOMAIN states |-> st]

\* The assignments of process_user_message go to the state object that
\* self.conversation_states holds under conversation_id, and to no other.
StoreState(states, conversation_id, st) == [states EXCEPT ![conversation_id] = st]

\* ProcessedMessage(query, tags, is_continuation, changes=None, conflicts=None)
ProcessedMessage(q, t, is_cont, changes, conflicts) ==
    [kind |-> "returned", query |-> q, tags |-> t, is_continuation |-> is_cont,
     changes |-> changes, conflicts |-> conflicts]

\* An exception leaving process_user_message.
Exception(fn) == [kind |-> "raised", fn |-> fn]

\* The record of one external call.
CallContinue(h, m, reply) ==
    [fn |-> "check_continue", conversation_history |-> h, current_message |-> m,
     reply |-> reply]
CallQuery(m, reply) == [fn |-> "extract_recipe_query", msg |-> m, reply |-> reply]
CallTags(m, reply) == [fn |-> "extract_tags", msg |-> m, reply |-> reply]

\* The result of a run of process_user_message: the state it leaves, what its
\* caller gets, the external calls it made.
Outcome(st, out, calls) == [state |-> st, processed |-> out, calls |-> calls]

\* A slip: the turn counted before its extractions.
ExtractAll_CountFirst(st, h, m, q_reply, t_reply, calls) ==
    LET q == extract_recipe_query(q_reply)
        t == extract_tags(t_reply)
        s1 == [st EXCEPT !.history = h, !.turn_counter = 1]
        s2 == [s1 EXCEPT !.current_recipe_query = q.value]
        s3 == [s2 EXCEPT !.current_tags = t.value]
        c1 == Append(calls, CallQuery(m, q_reply))
        c2 == Append(c1, CallTags(m, t_reply))
    IN  IF q.raised THEN Outcome(s1, Exception(q.fn), c1)
        ELSE IF t.raised THEN Outcome(s2, Exception(t.fn), c2)
        ELSE Outcome(s3, ProcessedMessage(q.value, t.value, FALSE, None, None), c2)

\* history, then current_recipe_query, then current_tags, then turn_counter
\* are assigned; an extraction that raises leaves what was assigned so far.
ExtractAll(st, h, m, q_reply, t_reply, calls) ==
    LET q == extract_recipe_query(q_reply)
        t == extract_tags(t_reply)
        s1 == [st EXCEPT !.history = h]
        s2 == [s1 EXCEPT !.current_recipe_query = q.value]
        s3 == [s2 EXCEPT !.current_tags = t.value, !.turn_counter = 1]
        c1 == Append(calls, CallQuery(m, q_reply))
        c2 == Append(c1, CallTags(m, t_reply))
    IN  IF q.raised THEN Outcome(s1, Exception(q.fn), c1)
        ELSE IF t.raised THEN Outcome(s2, Exception(t.fn), c2)
        ELSE Outcome(s3, ProcessedMessage(q.value, t.value, FALSE, None, None), c2)

\* A slip: the first turn not recording its message.
FirstTurn_NoAppend(st, m, q_reply, t_reply) ==
    ExtractAll(st, st.history, m, q_reply, t_reply, <<>>)

\* if state.turn_counter == 0: ... return ProcessedMessage(is_continuation=False)
FirstTurn(st, m, q_reply, t_reply) ==
    ExtractAll(st, Append(st.history, m), m, q_reply, t_reply, <<>>)

\* A slip: the continuation re-extracting the tags as well.
Continuation_Retag(st, m, q_reply, t_reply, order, calls) ==
    LET q == extract_recipe_query(q_reply)
        t == extract_tags(t_reply)
        s1 == [st EXCEPT !.history = Append(st.history, m)]
        c1 == Append(calls, CallQuery(m, q_reply))
        c2 == Append(c1, CallTags(m, t_reply))
    IN  IF q.raised THEN Outcome(s1, Exception(q.fn), c1)
        ELSE IF t.raised THEN Outcome(s1, Exception(t.fn), c2)
        ELSE LET r == merge_recipe_query_v2(st.current_recipe_query, q.value, order)
                 s2 == [s1 EXCEPT !.current_recipe_query = r.merged_query,
                                  !.current_tags = t.value,
                                  !.turn_counter = st.turn_counter + 1]
             IN  Outcome(s2, ProcessedMessage(r.merged_query, t.value, TRUE,
                                              r.changes, r.conflicts), c2)

\* if is_cont: ... return ProcessedMessage(is_continuation=True, changes, conflicts)
Continuation(st, m, q_reply, t_reply, order, calls) ==
    LET q == extract_recipe_query(q_reply)
        s1 == [st EXCEPT !.history = Append(st.history, m)]
        c1 == Append(calls, CallQuery(m, q_reply))
    IN  IF q.raised THEN Outcome(s1, Exception(q.fn), c1)
        ELSE IF st.current_recipe_query = None
        THEN Outcome(s1, Exception("merge_recipe_query_v2"), c1)
        ELSE LET r == merge_recipe_query_v2(st.current_recipe_query, q.value, order)
                 s2 == [s1 EXCEPT !.current_recipe_query = r.merged_query,
                                  !.turn_counter = st.turn_counter + 1]
             IN  Outcome(s2, ProcessedMessage(r.merged_query, st.current_tags, TRUE,
                                              r.changes, r.conflicts), c1)

\* A slip: the reset keeping the old history and counter.
Reset_KeepHistory(st, m, q_reply, t_reply, calls) ==
    LET o == ExtractAll(st, Append(st.history, m), m, q_reply, t_reply, calls)
    IN  IF o.processed.kind = "returned"
        THEN [o EXCEPT !.state.turn_counter = st.turn_counter + 1]
        ELSE o

\* else: ... return ProcessedMessage(is_continuation=False)
Reset(st, m, q_reply, t_reply, calls) ==
    ExtractAll(st, <<m>>, m, q_reply, t_reply, calls)

\* process_user_message on the state get_or_create_state returned.
Dispatch(st, m, c_reply, q_reply, t_reply, order) ==
    IF st.turn_counter = 0 THEN FirstTurn(st, m, q_reply, t_reply)
    ELSE LET c == check_continue(c_reply)
             calls == <<CallContinue(st.history, m, c_reply)>>
         IN  IF c.raised THEN Outcome(st, Exception(c.fn), calls)
             ELSE IF c.value THEN Continuation(st, m, q_reply, t_reply, order, calls)
             ELSE Reset(st, m, q_reply, t_reply, calls)

\* Which branch the replies send the message to.
Branch(st, c_reply) ==
    IF st.turn_counter = 0 THEN "first"
    ELSE IF check_continue(c_reply) = Returned(TRUE) THEN "continuation"
    ELSE "reset"

NoRequest == [op |-> "none"]
NotProcessed == [kind |-> "none"]

\* self.conversation_states = {}
InitConversations ==
    /\ conversation_states = [c \in ConvIds |-> None]
    /\ request = NoRequest
    /\ processed = NotProcessed
    /\ llm_calls = <<>>

\* The reply of a call that is not made.
NoCall == [nocall |-> TRUE]

\* The replies to draw for the tag extraction: none when it is not reached.
TagInputs(branch, q_reply, tagReplies) ==
    IF branch = "continuation" \/ q_reply \in ErrorReplies THEN {NoCall} ELSE tagReplies

\* The iteration orders to draw: one when no set is merged, or when the sets
\* merged hold one term between them and have one order.
OrderInputs(st, branch, q_reply) ==
    IF /\ branch = "continuation"
       /\ q_reply \notin ErrorReplies
       /\ st.current_recipe_query # None
       /\ Cardinality(IncludeSet(st.current_recipe_query) \cup ExcludeSet(st.current_recipe_query)
                        \cup IncludeSet(q_reply) \cup ExcludeSet(q_reply)) > 1
    THEN HashOrders
    ELSE {[i \in 1..NumTerms |-> i]}

\* process_user_message(user_message, conversation_id), with the replies the
\* LLM gives to the calls it makes.
ProcessUserMessage(conversation_id, user_message, c_reply, q_reply, t_reply, order) ==
    LET st == get_or_create_state(conversation_states, conversation_id)
    IN  /\ Branch(st, c_reply) = "first" => Len(st.history) < MaxHist
        /\ Branch(st, c_reply) = "continuation" =>
                Len(st.history) < MaxHist /\ st.turn_counter < MaxTurns
        /\ \E o \in {Dispatch(st, user_message, c_reply, q_reply, t_reply, order)} :
            /\ conversation_states' = StoreState(conversation_states, conversation_id, o.state)
            /\ processed' = o.processed
            /\ llm_calls' = o.calls
        /\ request' = [op |-> "process_user_message",
                       conversation_id |-> conversation_id,
                       user_message |-> user_message]
        /\ UNCHANGED <<mvars, evars, rvars, tvars>>

\* A slip: the clearing that empties the state but keeps its history.
clear_conversation_state_KeepHistory(states, conversation_id) ==
    LET st == states[conversation_id]
    IN  [states EXCEPT ![conversation_id] =
            IF st = None THEN None ELSE [NewState EXCEPT !.history = st.history]]

\* clear_conversation_state: del self.conversation_states[conversation_id]
clear_conversation_state(states, conversation_id) ==
    [states EXCEPT ![conversation_id] = None]

\* clear_conversation_state(conversation_id), called on a conversation that has
\* a state.
ClearConversationState(conversation_id) ==
    /\ conversation_states[conversation_id] # None
    /\ conversation_states' = clear_conversation_state(conversation_states, conversation_id)
    /\ request' = [op |-> "clear_conversation_state",
                   conversation_id |-> conversation_id]
    /\ processed' = NotProcessed
    /\ llm_calls' = <<>>
    /\ UNCHANGED <<mvars, evars, rvars, tvars>>

\* One message arrives: the replies are drawn for the calls it will make.  The
\* query extraction is drawn with both kinds of failure; the other two calls
\* reach their except clause the same way and are drawn with one.
Turn ==
    \E c \in ConvIds, m \in Messages :
        LET st == get_or_create_state(conversation_states, c)
        IN  \E c_reply \in (IF st.turn_counter = 0 THEN {NoCall}
                            ELSE ContinueReplies \cup {ClientError}) :
            \E q_reply \in LLMQueries \cup ErrorReplies :
            \E t_reply \in TagInputs(Branch(st, c_reply), q_reply, LLMTags \cup {Malformed}) :
            \E order \in OrderInputs(st, Branch(st, c_reply), q_reply) :
                ProcessUserMessage(c, m, c_reply, q_reply, t_reply, order)

Clear == \E c \in ConvIds : ClearConversationState(c)

\* No merge of its own is under way.
MergeIdle == base = None /\ patch = None /\ merge_result = None

\* The runs of process_user_message that may be under way at once.
Tasks == {1, 2}
\* No run is under way; runs are one at a time.
NoTasks == [t \in Tasks |-> [pc |-> "idle"]]
NoSchedule == [serialized |-> TRUE, initial |-> None]

\* No conversation and no message is stored, no request was answered.
NoResponse == [status |-> 0]
NoSearch == [called |-> FALSE]
InitEndpoint ==
    /\ db = [conversations |-> [c \in ConvIds |-> None], messages |-> [c \in ConvIds |-> <<>>]]
    /\ response = NoResponse
    /\ search_call = NoSearch
    /\ resolver_calls = <<>>
    /\ tasks = NoTasks
    /\ schedule = NoSchedule

Init == InitConversations /\ MergeIdle /\ InitEndpoint

Next == Turn \/ Clear

Spec == Init /\ [][Next]_vars

\* The same service with an LLM that answers every call: the classifier gives
\* a verdict, the extractions give a query and tags.
TurnAnswered ==
    \E c \in ConvIds, m \in Messages :
        LET st == get_or_create_state(conversation_states, c)
        IN  \E c_reply \in (IF st.turn_counter = 0 THEN {NoCall} ELSE ContinueReplies) :
            \E q_reply \in LLMQueries :
            \E t_reply \in TagInputs(Branch(st, c_reply), q_reply, LLMTags) :
            \E order \in OrderInputs(st, Branch(st, c_reply), q_reply) :
                ProcessUserMessage(c, m, c_reply, q_reply, t_reply, order)

NextAnswered == TurnAnswered \/ Clear

SpecAnswered == Init /\ [][NextAnswered]_vars

(***************************************************************************)
(* Two conversations on one ChatService, their turns and clearings in any  *)
(* order.                                                                  *)
(***************************************************************************)
TwoConvIds == {1, 2}
TwoQueries ==
    {RecipeQuery("pasta", <<1>>, <<>>, DefaultCount), RecipeQuery("tacos", <<>>, <<1>>, 7)}
TwoTags == {[EmptyTags EXCEPT !.CUISINES_REGIONAL = "italian"]}
TwoContinueReplies ==
    {[continue |-> TRUE, reason |-> "refines"], [continue |-> FALSE, reason |-> "new topic"]}

InitTwo ==
    /\ conversation_states = [c \in TwoConvIds |-> None]
    /\ request = NoRequest
    /\ processed = NotProcessed
    /\ llm_calls = <<>>
    /\ MergeIdle
    /\ InitEndpoint

TwoTurn ==
    \E c \in TwoConvIds :
        LET st == get_or_create_state(conversation_states, c)
        IN  \E c_reply \in (IF st.turn_counter = 0 THEN {NoCall} ELSE TwoContinueReplies) :
            \E q_reply \in TwoQueries \cup {ClientError} :
            \E t_reply \in TagInputs(Branch(st, c_reply), q_reply, TwoTags \cup {Malformed}) :
            \E order \in OrderInputs(st, Branch(st, c_reply), q_reply) :
                ProcessUserMessage(c, "m1", c_reply, q_reply, t_reply, order)

TwoClear == \E c \in TwoConvIds : ClearConversationState(c)

NextTwo == TwoTurn \/ TwoClear

SpecTwo == InitTwo /\ [][NextTwo]_vars

(***************************************************************************)
(* Two runs of process_user_message on one conversation.  A run is cut at  *)
(* its external calls (check_continue, extract_recipe_query,               *)
(* extract_tags): what lies between two calls is one step.  Scheduled one  *)
(* at a time, a run begins when no other is under way; else the runs       *)
(* interleave at the calls.  No call fails here.                           *)
(***************************************************************************)
\* The conversation the runs are on.
TaskConversation == 1
\* The message of each run, and what the LLM extracts from a message.
TaskMessage(t) == IF t = 1 THEN "m1" ELSE "m2"
TaskQuery(m) ==
    IF m = "m1" THEN RecipeQuery("pasta", <<1>>, <<>>, DefaultCount)
    ELSE IF m = "m2" THEN RecipeQuery("tacos", <<>>, <<1>>, 7)
    ELSE RecipeQuery("pasta", <<>>, <<>>, DefaultCount)
TaskTags(m) ==
    IF m = "m1" THEN [EmptyTags EXCEPT !.CUISINES_REGIONAL = "italian"]
    ELSE IF m = "m2" THEN [EmptyTags EXCEPT !.CUISINES_REGIONAL = "mexican"]
    ELSE EmptyTags
\* One term is merged at most: the sets have one iteration order.
TaskOrder == [i \in 1..NumTerms |-> i]
\* The verdicts of check_continue.
TaskVerdict(v) == [continue |-> v, reason |-> "verdict"]

\* The conversation as the runs find it: without a state, or after the first
\* turn of an earlier message.
EarlierState == FirstTurn(NewState, "m0", TaskQuery("m0"), TaskTags("m0")).state
TaskInitialStates == {None, EarlierState}

\* state = self.get_or_create_state(conversation_id);
\* if state.turn_counter == 0: state.history.append(user_message)
\* -- up to the call of extract_recipe_query or of check_continue.
TaskBegin(st, m) ==
    IF st.turn_counter = 0
    THEN [state |-> [st EXCEPT !.history = Append(@, m)], pc |-> "query"]
    ELSE [state |-> st, pc |-> "check"]

\* is_cont, reason = ...; if is_cont: state.history.append(user_message)
\* else: state.history = [user_message] -- up to the call of
\* extract_recipe_query.
TaskChecked(st, m, is_cont) ==
    IF is_cont
    THEN [state |-> [st EXCEPT !.history = Append(@, m)], pc |-> "patch"]
    ELSE [state |-> [st EXCEPT !.history = <<m>>], pc |-> "query"]

\* state.current_recipe_query = <the extraction> -- up to the call of
\* extract_tags.
TaskQueryStored(st, q) ==
    [state |-> [st EXCEPT !.current_recipe_query = q], pc |-> "tags"]

\* state.current_tags = <the extraction>; state.turn_counter = 1; return
TaskTagsStored(st, t) ==
    [state |-> [st EXCEPT !.current_tags = t, !.turn_counter = 1], pc |-> "done"]

\* A slip: the continuation that does not count its turn.
TaskMerged_NoCount(st, patch_q) ==
    [state |-> [st EXCEPT !.current_recipe_query =
                    merge_recipe_query_v2(@, patch_q, TaskOrder).merged_query],
     pc |-> "done"]

\* merge_result = self.merge_recipe_query_v2(state.current_recipe_query,
\* patch_query); state.current_recipe_query = merge_result.merged_query;
\* state.turn_counter += 1; return
TaskMerged(st, patch_q) ==
    [state |-> [st EXCEPT !.current_recipe_query =
                    merge_recipe_query_v2(@, patch_q, TaskOrder).merged_query,
                          !.turn_counter = @ + 1],
     pc |-> "done"]

\* A run is between its first statement and its return.
UnderWay(t) == tasks[t].pc \notin {"idle", "done"}

\* One step of run t: the part of process_user_message from where the run
\* stands to its next external call, on the state object of the conversation
\* as it is now.
TaskStep(t) ==
    LET st == get_or_create_state(conversation_states, TaskConversation)
        m == TaskMessage(t)
        pc == tasks[t].pc
    IN  /\ pc # "done"
        /\ (pc = "idle" /\ schedule.serialized) => \A u \in Tasks : ~UnderWay(u)
        /\ \E r \in (CASE pc = "idle" -> {TaskBegin(st, m)}
                      [] pc = "check" -> {TaskChecked(st, m, v) : v \in BOOLEAN}
                      [] pc = "query" -> {TaskQueryStored(st, TaskQuery(m))}
                      [] pc = "tags" -> {TaskTagsStored(st, TaskTags(m))}
                      [] pc = "patch" -> {TaskMerged(st, TaskQuery(m))}) :
            /\ conversation_states' = StoreState(conversation_states, TaskConversation, r.state)
            /\ tasks' = [tasks EXCEPT ![t] = [pc |-> r.pc]]
        /\ UNCHANGED <<schedule, request, processed, llm_calls, mvars, evars, rvars>>

\* The runs are scheduled one at a time or not, on a conversation with or
\* without an earlier turn.
InitConcurrent ==
    /\ \E st \in TaskInitialStates, serialized \in BOOLEAN :
        /\ conversation_states = [c \in ConvIds |-> st]
        /\ schedule = [serialized |-> serialized, initial |-> st]
    /\ tasks = NoTasks
    /\ request = NoRequest
    /\ processed = NotProcessed
    /\ llm_calls = <<>>
    /\ MergeIdle
    /\ db = [conversations |-> [c \in ConvIds |-> None], messages |-> [c \in ConvIds |-> <<>>]]
    /\ response = NoResponse
    /\ search_call = NoSearch
    /\ resolver_calls = <<>>

NextConcurrent == \E t \in Tasks : TaskStep(t)

SpecConcurrent == InitConcurrent /\ [][NextConcurrent]_vars

(***************************************************************************)
(* The merge on its own: a stored query, a patch, the merge of the two,    *)
(* and the merged query stored as the base of the next merge.              *)
(***************************************************************************)
InitMerge ==
    /\ base \in Queries
    /\ patch = None
    /\ merge_result = None
    /\ InitConversations
    /\ InitEndpoint

\* The next message's extraction arrives.
MergePatch ==
    /\ patch = None
    /\ patch' \in Queries
    /\ UNCHANGED <<base, merge_result, cvars, evars, rvars, tvars>>

\* merge_result = self.merge_recipe_query_v2(state.current_recipe_query, patch_query)
MergeCall ==
    /\ patch # None
    /\ merge_result = None
    /\ merge_result' \in {merge_recipe_query_v2(base, patch, order) : order \in HashOrders}
    /\ UNCHANGED <<base, patch, cvars, evars, rvars, tvars>>

\* state.current_recipe_query = merge_result.merged_query
MergeStore ==
    /\ merge_result # None
    /\ base' = merge_result.merged_query
    /\ patch' = None
    /\ merge_result' = None
    /\ UNCHANGED <<cvars, evars, rvars, tvars>>

NextMerge == MergePatch \/ MergeCall \/ MergeStore

SpecMerge == InitMerge /\ [][NextMerge]_vars

(***************************************************************************)
(* RecipeService: the recipe database and the ingredients-first search.    *)
(* An ingredient phrase is a number, as in the merge; the phrase written   *)
(* with a capital is the phrase plus CaseShift.  Similarities are in       *)
(* hundredths.                                                             *)
(***************************************************************************)
CaseShift == 100
\* LOWER(...) and str.lower() on an ingredient phrase
Lower(p) == IF p > CaseShift THEN p - CaseShift ELSE p
\* LOWER(...) and str.lower() on a tag text
LowerText(s) ==
    CASE s = "Italian" -> "italian"
      [] s = "Vegetarian" -> "vegetarian"
      [] OTHER -> s

\* confidence_threshold of resolve_ingredient_to_canonical and of resolve_tag
IngredientThreshold == 65
TagThreshold == 70
\* confidence of an exact match
ExactConfidence == 100

\* ingredient_variants: (canonical_id, variant), unique as a pair.  Variant
\* 30 is under two canonical ingredients; no recipe has variant 50.
IngredientVariants ==
    {<<1, 1>>, <<1, 10>>, <<2, 20>>, <<2, 120>>, <<1, 30>>, <<2, 30>>, <<3, 50>>}
\* ingredients.id
CanonicalIds == {v[1] : v \in IngredientVariants}
\* 1 - (i.embedding <=> encode(ingredient_name)): ingredients 1 and 2 are
\* equally near phrase 4.
IngredientSimilarity(name, canonical_id) ==
    CASE name = 2 /\ canonical_id = 2 -> 80
      [] name = 2 /\ canonical_id = 1 -> 66
      [] name = 3 /\ canonical_id = 1 -> 65
      [] name = 4 /\ canonical_id \in {1, 2} -> 75
      [] OTHER -> 30 + canonical_id

\* tags: tag_name, group_name
TagTable ==
    {[tag_name |-> "Vegetarian", group_name |-> "DIETARY_HEALTH"],
     [tag_name |-> "gluten-free", group_name |-> "DIETARY_HEALTH"],
     [tag_name |-> "italian", group_name |-> "CUISINES_REGIONAL"],
     [tag_name |-> "mexican", group_name |-> "CUISINES_REGIONAL"],
     [tag_name |-> "easy", group_name |-> "DIFFICULTY_SCALE"]}
\* 1 - (t.embedding <=> encode(tag_text)): the two cuisines are equally near
\* "spicy".
TagSimilarity(tag_text, tag_name) ==
    CASE tag_text = "gluten" /\ tag_name = "gluten-free" -> 85
      [] tag_text = "spicy" /\ tag_name \in {"italian", "mexican"} -> 80
      [] tag_text = "veggie" /\ tag_name = "Vegetarian" -> 70
      [] tag_text = "veggie" /\ tag_name = "gluten-free" -> 40
      [] OTHER -> 20

\* recipes: id, ingredients, tags
RecipeTable ==
    {[id |-> 1, ingredients |-> <<101, 20>>, tags |-> {"vegetarian", "italian"}],
     [id |-> 2, ingredients |-> <<10>>, tags |-> {"italian"}],
     [id |-> 3, ingredients |-> <<20>>, tags |-> {"mexican", "gluten-free"}]}
RecipeIds == {r.id : r \in RecipeTable}
\* 1 - (embedding <=> encode(recipe_query.query)): recipes 1 and 2 are equally
\* near "pasta".
RecipeSimilarity(text, id) ==
    CASE text = "pasta" /\ id \in {1, 2} -> 90
      [] text = "pasta" -> 40
      [] text = "tacos" /\ id = 3 -> 95
      [] OTHER -> 20 + id

\* A slip: a similarity equal to the threshold accepted.
AboveThreshold_OrEqual(similarity, confidence_threshold) ==
    similarity >= confidence_threshold

\* WHERE 1 - (embedding <=> %s::vector) > %s
AboveThreshold(similarity, confidence_threshold) == similarity > confidence_threshold

\* resolve_ingredient_to_canonical: the results a call may return.  The exact
\* match is fetchone() of a SELECT DISTINCT with no ORDER BY, any one of its
\* rows; else the row of ORDER BY distance LIMIT 1 above the threshold, any
\* one of the nearest; else None.
resolve_ingredient_to_canonical(ingredient_name) ==
    LET exact == {v[1] : v \in {w \in IngredientVariants :
                                    Lower(w[2]) = Lower(ingredient_name)}}
        near == {c \in CanonicalIds :
                    AboveThreshold(IngredientSimilarity(ingredient_name, c),
                                   IngredientThreshold)}
        nearest == {x \in near : \A y \in near :
                        IngredientSimilarity(ingredient_name, x)
                            >= IngredientSimilarity(ingredient_name, y)}
    IN  IF exact # {}
        THEN {[canonical_id |-> c, confidence |-> ExactConfidence,
               method |-> "exact_match"] : c \in exact}
        ELSE IF near # {}
        THEN {[canonical_id |-> c,
               confidence |-> IngredientSimilarity(ingredient_name, c),
               method |-> "embedding_match"] : c \in nearest}
        ELSE {None}

\* get_all_ingredient_variants
get_all_ingredient_variants(canonical_id) ==
    {v[2] : v \in {w \in IngredientVariants : w[1] = canonical_id}}

\* resolve_tag(tag_text, tag_group): the results a call may return; the two
\* calls of the search both give the group.  fetchone() of the exact match,
\* else the row of ORDER BY distance LIMIT 1 above the threshold, else None.
resolve_tag(tag_text, tag_group) ==
    LET exact == {t \in TagTable : /\ LowerText(t.tag_name) = LowerText(tag_text)
                                   /\ t.group_name = tag_group}
        near == {t \in TagTable : /\ t.group_name = tag_group
                                  /\ AboveThreshold(TagSimilarity(tag_text, t.tag_name),
                                                    TagThreshold)}
        nearest == {x \in near : \A y \in near :
                        TagSimilarity(tag_text, x.tag_name)
                            >= TagSimilarity(tag_text, y.tag_name)}
    IN  IF exact # {}
        THEN {[tag_name |-> t.tag_name, group_name |-> t.group_name,
               confidence |-> ExactConfidence, method |-> "exact_match"] : t \in exact}
        ELSE IF near # {}
        THEN {[tag_name |-> t.tag_name, group_name |-> t.group_name,
               confidence |-> TagSimilarity(tag_text, t.tag_name),
               method |-> "embedding_match"] : t \in nearest}
        ELSE {None}

\* The fields of TagsSemanticSchema, in the order model_dump() gives them.
TagFields ==
    <<"TIME_DURATION", "DIFFICULTY_SCALE", "SCALE", "FREE_OF", "DIETS",
      "CUISINES_REGIONAL", "MEAL_COURSES", "PREPARATION_METHOD">>

\* GROUP_NAME_MAPPING.get(group, group)
GROUP_NAME_MAPPING(group) ==
    CASE group = "DIETS" -> "DIETARY_HEALTH"
      [] group = "FREE_OF" -> "DIETARY_HEALTH"
      [] group = "SCALE" -> "DIFFICULTY_SCALE"
      [] OTHER -> group

\* A slip: the first field of a group staying.
map_tags_for_db_FirstWins(tags) ==
    LET filled == {i \in 1..Len(TagFields) : tags[TagFields[i]] # ""}
        groups == {GROUP_NAME_MAPPING(TagFields[i]) : i \in filled}
        first(g) == CHOOSE i \in filled :
                        /\ GROUP_NAME_MAPPING(TagFields[i]) = g
                        /\ \A j \in filled :
                                GROUP_NAME_MAPPING(TagFields[j]) = g => j >= i
    IN  [g \in groups |-> tags[TagFields[first(g)]]]

\* map_tags_for_db on {k: v for k, v in tags.model_dump().items() if v}:
\* mapped[db_group] = value in the order of the fields, the later one staying.
map_tags_for_db(tags) ==
    LET filled == {i \in 1..Len(TagFields) : tags[TagFields[i]] # ""}
        groups == {GROUP_NAME_MAPPING(TagFields[i]) : i \in filled}
        last(g) == CHOOSE i \in filled :
                        /\ GROUP_NAME_MAPPING(TagFields[i]) = g
                        /\ \A j \in filled :
                                GROUP_NAME_MAPPING(TagFields[j]) = g => j <= i
    IN  [g \in groups |-> tags[TagFields[last(g)]]]

\* The groups of the critical tags, in the order the search resolves them.
CriticalGroups == <<"DIETARY_HEALTH", "CUISINES_REGIONAL">>

\* One element of each set of the sequence, in order.
RECURSIVE Choices(_)
Choices(ss) ==
    IF ss = <<>> THEN {<<>>}
    ELSE {<<h>> \o t : h \in Head(ss), t \in Choices(Tail(ss))}

\* What the resolver calls of one search may return: for each critical group
\* the result of resolve_tag (no call when the group is not mapped), for each
\* include and each exclude ingredient the result of
\* resolve_ingredient_to_canonical.  (The include ingredients are resolved a
\* first time for include_variants, which is not read afterwards; the results
\* here are those of the loop that builds the statement.)
Resolutions(recipe_query, tags) ==
    LET mapped_tags == map_tags_for_db(tags)
        of(names) == Choices([i \in 1..Len(names) |->
                                resolve_ingredient_to_canonical(names[i])])
    IN  {[tags |-> t, include |-> inc, exclude |-> exc] :
            t \in Choices([k \in 1..Len(CriticalGroups) |->
                            IF CriticalGroups[k] \in DOMAIN mapped_tags
                            THEN resolve_tag(mapped_tags[CriticalGroups[k]], CriticalGroups[k])
                            ELSE {NoCall}]),
            inc \in of(recipe_query.include_ingredients),
            exc \in of(recipe_query.exclude_ingredients)}

\* critical_tags: DIETARY_HEALTH, then CUISINES_REGIONAL, each when mapped and
\* resolved.
CriticalTags(resolution) ==
    LET one(k) == IF resolution.tags[k] \in {NoCall, None} THEN <<>>
                  ELSE <<resolution.tags[k].tag_name>>
    IN  one(1) \o one(2)

\* [v.lower() for v in variants] of the canonical entry an ingredient was
\* resolved to; nothing when it did not resolve.
LoweredVariants(resolved) ==
    IF resolved = None THEN {}
    ELSE {Lower(v) : v \in get_all_ingredient_variants(resolved.canonical_id)}

\* A slip: one include ingredient found being enough.
Matches_AnyInclude(recipe, resolution) ==
    LET has(variants) == \E k \in 1..Len(recipe.ingredients) :
                            Lower(recipe.ingredients[k]) \in variants
        critical_tags == CriticalTags(resolution)
        exclude_variants == UNION {LoweredVariants(resolution.exclude[i]) :
                                    i \in 1..Len(resolution.exclude)}
        resolved == {i \in 1..Len(resolution.include) : resolution.include[i] # None}
    IN  /\ resolved # {} =>
              \E i \in resolved : has(LoweredVariants(resolution.include[i]))
        /\ exclude_variants # {} => ~has(exclude_variants)
        /\ \A j \in 1..Len(critical_tags) : LowerText(critical_tags[j]) \in recipe.tags

\* The WHERE clause the search builds: every resolved include ingredient has
\* a variant among the recipe's ingredients, no exclude variant is among
\* them, every critical tag is among the recipe's tags.
Matches(recipe, resolution) ==
    LET has(variants) == \E k \in 1..Len(recipe.ingredients) :
                            Lower(recipe.ingredients[k]) \in variants
        critical_tags == CriticalTags(resolution)
        exclude_variants == UNION {LoweredVariants(resolution.exclude[i]) :
                                    i \in 1..Len(resolution.exclude)}
    IN  /\ \A i \in 1..Len(resolution.include) :
              resolution.include[i] # None => has(LoweredVariants(resolution.include[i]))
        /\ exclude_variants # {} => ~has(exclude_variants)
        /\ \A j \in 1..Len(critical_tags) : LowerText(critical_tags[j]) \in recipe.tags

\* matching_ids
Candidates(resolution) == {r.id : r \in {x \in RecipeTable : Matches(x, resolution)}}

\* ORDER BY similarity DESC: the orders the database may give the candidates
\* in; equally near recipes come in either order.
Rankings(candidates, text) ==
    {r \in [1..Cardinality(candidates) -> candidates] :
        /\ ToSet(r) = candidates
        /\ \A i \in 1..Len(r) - 1 :
              RecipeSimilarity(text, r[i]) >= RecipeSimilarity(text, r[i + 1])}

\* Where the storage layer fails: nowhere, on get_recipe_connection(), on a
\* statement of a resolver, on the filter statement, on the ranking
\* statement, on the statement of get_recipe_details.
Faults == {"none", "connect", "resolve", "filter", "rank", "details"}

Min(a, b) == IF a <= b THEN a ELSE b

\* The search calls a resolver: a critical group is mapped or an ingredient
\* is given.
Resolves(recipe_query, tags) ==
    \/ DOMAIN map_tags_for_db(tags) \cap {"DIETARY_HEALTH", "CUISINES_REGIONAL"} # {}
    \/ recipe_query.include_ingredients # <<>>
    \/ recipe_query.exclude_ingredients # <<>>

\* A slip: all the ranked ids returned.
TopN_All(results, count) == results

\* results[:recipe_query.count]
TopN(results, count) == SubSeq(results, 1, Min(count, Len(results)))

\* search_recipes_ingredients_first: try ... finally, no except clause; the
\* error of a statement leaves the function.
search_recipes_ingredients_first(recipe_query, tags, fault, ranking, resolution) ==
    LET matching_ids == Candidates(resolution)
    IN  IF fault = "connect" THEN Raised("get_recipe_connection")
        ELSE IF fault = "resolve" /\ Resolves(recipe_query, tags) THEN Raised("resolve")
        ELSE IF fault = "filter" THEN Raised("search_recipes_ingredients_first")
        ELSE IF matching_ids = {}
        THEN Returned([recipe_ids |-> <<>>, embedding_scores |-> <<>>, total_found |-> 0])
        ELSE IF fault = "rank" THEN Raised("search_recipes_ingredients_first")
        ELSE Returned([recipe_ids |-> TopN(ranking, recipe_query.count),
                       embedding_scores |->
                            [id \in matching_ids |-> RecipeSimilarity(recipe_query.query, id)],
                       total_found |-> Len(ranking)])

\* A slip: the search going on to rank whatever the filter gave.
Executed_AlwaysRank(recipe_query, tags, fault, resolution) ==
    IF fault \in {"connect", "resolve"} THEN <<>>
    ELSE IF fault = "filter" THEN <<"filter">>
    ELSE <<"filter", "encode", "rank">>

\* The statements the search sends after its resolver calls, in order: the
\* filter (cur.execute(query, params)), then, unless matching_ids is empty,
\* embedding_service.encode(recipe_query.query) and the ranking statement.
Executed(recipe_query, tags, fault, resolution) ==
    IF fault = "connect" \/ (fault = "resolve" /\ Resolves(recipe_query, tags)) THEN <<>>
    ELSE IF fault = "filter" \/ Candidates(resolution) = {} THEN <<"filter">>
    ELSE <<"filter", "encode", "rank">>

\* get_recipe_details: the rows of the ids; nothing is read for no id.
get_recipe_details(recipe_ids, fault) ==
    IF recipe_ids = <<>> THEN Returned({})
    ELSE IF fault = "details" THEN Raised("get_recipe_details")
    ELSE Returned({r \in RecipeTable : r.id \in ToSet(recipe_ids)})

(***************************************************************************)
(* routers/chat.py: POST /chat.                                            *)
(***************************************************************************)
\* get_current_user
Users == {1, 2}
\* Most rows the messages table holds for one conversation before the model
\* stops sending to it.
MaxRows == 4

NotFound == [status |-> 404, detail |-> "Conversation not found"]
InternalError == [status |-> 500, detail |-> "Error processing message"]
\* ChatResponse(message, conversation_id, recipes, query_info)
ChatResponse(text, conversation_id, recipes, query_info) ==
    [status |-> 200, message |-> text, conversation_id |-> conversation_id,
     recipes |-> recipes, query_info |-> query_info]

\* Conversation(user_id, title) and Message(conversation_id, content, is_user)
Conversation(user_id, title) == [user_id |-> user_id, title |-> title, is_active |-> TRUE]
MessageRow(content, is_user) == [content |-> content, is_user |-> is_user]

\* The id the database gives the next conversation.
NextConversationId == Cardinality({c \in ConvIds : db.conversations[c] # None}) + 1

\* The text of the answer: recipes were found, or none.
ResponseText(search_results) ==
    IF search_results.total_found > 0 THEN "I found" ELSE "I couldn't find any recipes"

\* The recipes of the answer: the ids of recipe_ids that details has, in order.
RecipeDetails(recipe_ids, details) ==
    SelectSeq(recipe_ids, LAMBDA id : \E r \in details : r.id = id)

\* The part of chat() after the conversation is there: the user message is
\* added, the message processed, the recipes searched and fetched, the
\* assistant message added and both committed; an exception on the way rolls
\* the session back and is answered with 500.
ChatTurn(conversation_id, db1, message, o, fault, ranking, resolution) ==
    /\ conversation_states' = StoreState(conversation_states, conversation_id, o.state)
    /\ processed' = o.processed
    /\ llm_calls' = o.calls
    /\ IF o.processed.kind = "raised"
       THEN /\ search_call' = NoSearch
            /\ db' = db1
            /\ response' = InternalError
       ELSE \E search \in {search_recipes_ingredients_first(o.processed.query,
                                        o.processed.tags, fault, ranking, resolution)} :
            /\ search_call' = [called |-> TRUE, recipe_query |-> o.processed.query,
                               tags |-> o.processed.tags, fault |-> fault,
                               resolution |-> resolution,
                               executed |-> Executed(o.processed.query, o.processed.tags,
                                                     fault, resolution),
                               outcome |-> search]
            /\ IF search.raised
               THEN /\ db' = db1
                    /\ response' = InternalError
               ELSE \E details \in {get_recipe_details(search.value.recipe_ids, fault)} :
                    IF details.raised
                    THEN /\ db' = db1
                         /\ response' = InternalError
                    ELSE /\ db' = [db1 EXCEPT !.messages[conversation_id] =
                                    @ \o <<MessageRow(message, TRUE),
                                           MessageRow(ResponseText(search.value), FALSE)>>]
                         /\ response' =
                                ChatResponse(ResponseText(search.value), conversation_id,
                                    RecipeDetails(search.value.recipe_ids, details.value),
                                    [query |-> o.processed.query,
                                     tags |-> o.processed.tags,
                                     is_continuation |-> o.processed.is_continuation,
                                     total_found |-> search.value.total_found])

\* The faults to draw: none when the search is not reached.
FaultInputs(o) == IF o.processed.kind = "returned" THEN Faults ELSE {"none"}

\* The results of the resolvers to draw: none when the search is not reached.
ResolutionInputs(o) ==
    IF o.processed.kind = "returned"
    THEN Resolutions(o.processed.query, o.processed.tags)
    ELSE {NoCall}

\* The orders to draw: one of the database's when the ranking statement runs.
RankingInputs(o, fault, resolution) ==
    IF o.processed.kind = "returned" /\ fault \in {"none", "details"}
    THEN Rankings(Candidates(resolution), o.processed.query.query)
    ELSE {<<>>}

\* chat(request, user_id, db) with request.conversation_id = None: the
\* conversation is created and committed, then the message is processed.
ChatNew(user_id, message, q_reply, t_reply) ==
    LET id == NextConversationId
        db1 == [db EXCEPT !.conversations[id] = Conversation(user_id, message)]
    IN  /\ id \in ConvIds
        /\ request' = [op |-> "chat", user_id |-> user_id, conversation_id |-> None,
                       message |-> message]
        /\ \E o \in {Dispatch(get_or_create_state(conversation_states, id), message,
                              NoCall, q_reply, t_reply, [i \in 1..NumTerms |-> i])} :
           \E fault \in FaultInputs(o) :
           \E resolution \in ResolutionInputs(o) :
           \E ranking \in RankingInputs(o, fault, resolution) :
                ChatTurn(id, db1, message, o, fault, ranking, resolution)
        /\ UNCHANGED <<mvars, rvars, tvars>>

\* chat(request, user_id, db) with a conversation id: 404 unless the
\* conversation is there and is the user's, else the message is processed.
ChatExisting(user_id, conversation_id, message, c_reply, q_reply, t_reply, order) ==
    LET conversation == db.conversations[conversation_id]
        st == get_or_create_state(conversation_states, conversation_id)
    IN  /\ request' = [op |-> "chat", user_id |-> user_id,
                       conversation_id |-> conversation_id, message |-> message]
        /\ IF conversation = None \/ conversation.user_id # user_id
           THEN /\ response' = NotFound
                /\ processed' = NotProcessed
                /\ llm_calls' = <<>>
                /\ search_call' = NoSearch
                /\ UNCHANGED <<conversation_states, db>>
           ELSE /\ Len(db.messages[conversation_id]) < MaxRows
                /\ Branch(st, c_reply) = "first" => Len(st.history) < MaxHist
                /\ Branch(st, c_reply) = "continuation" =>
                        Len(st.history) < MaxHist /\ st.turn_counter < MaxTurns
                /\ \E o \in {Dispatch(st, message, c_reply, q_reply, t_reply, order)} :
                   \E fault \in FaultInputs(o) :
                   \E resolution \in ResolutionInputs(o) :
                   \E ranking \in RankingInputs(o, fault, resolution) :
                        ChatTurn(conversation_id, db, message, o, fault, ranking, resolution)
        /\ UNCHANGED <<mvars, rvars, tvars>>

\* The messages, and the completions of the three prompts, that the endpoint
\* model draws from.
ChatMessages == {"m1"}
ChatQueries ==
    {RecipeQuery("pasta", <<1>>, <<>>, DefaultCount),
     RecipeQuery("tacos", <<>>, <<2>>, 7)}
ChatContinueReplies ==
    {[continue |-> TRUE, reason |-> "refines"], [continue |-> FALSE, reason |-> "new topic"],
     ClientError}
ChatTags ==
    {[EmptyTags EXCEPT !.FREE_OF = "gluten", !.DIETS = "vegetarian"],
     [EmptyTags EXCEPT !.CUISINES_REGIONAL = "Italian"]}

New ==
    \E u \in Users, m \in ChatMessages :
    \E q_reply \in ChatQueries \cup ErrorReplies :
    \E t_reply \in TagInputs("first", q_reply, ChatTags \cup {Malformed}) :
        ChatNew(u, m, q_reply, t_reply)

Existing ==
    \E u \in Users, c \in ConvIds, m \in ChatMessages :
        LET st == get_or_create_state(conversation_states, c)
            mine == db.conversations[c] # None /\ db.conversations[c].user_id = u
        IN  \E c_reply \in (IF mine /\ st.turn_counter # 0
                            THEN ChatContinueReplies ELSE {NoCall}) :
            \E q_reply \in (IF mine THEN ChatQueries \cup ErrorReplies ELSE {NoCall}) :
            \E t_reply \in (IF mine
                            THEN TagInputs(Branch(st, c_reply), q_reply,
                                           ChatTags \cup {Malformed})
                            ELSE {NoCall}) :
            \E order \in (IF mine THEN OrderInputs(st, Branch(st, c_reply), q_reply)
                          ELSE {[i \in 1..NumTerms |-> i]}) :
                ChatExisting(u, c, m, c_reply, q_reply, t_reply, order)

\* reset_conversation(conversation_id, user_id, db): 404 unless the
\* conversation is there and is the user's, else its state is cleared.
ResetConversation(user_id, conversation_id) ==
    LET conversation == db.conversations[conversation_id]
    IN  /\ request' = [op |-> "reset_conversation", user_id |-> user_id,
                       conversation_id |-> conversation_id]
        /\ IF conversation = None \/ conversation.user_id # user_id
           THEN /\ response' = NotFound
                /\ UNCHANGED conversation_states
           ELSE /\ response' = [status |-> 200, message |-> "Conversation state reset"]
                /\ conversation_states' =
                        clear_conversation_state(conversation_states, conversation_id)
        /\ processed' = NotProcessed
        /\ llm_calls' = <<>>
        /\ search_call' = NoSearch
        /\ UNCHANGED <<db, mvars, rvars, tvars>>

Resetting == \E u \in Users, c \in ConvIds : ResetConversation(u, c)

NextChat == New \/ Existing \/ Resetting

SpecChat == Init /\ [][NextChat]_vars

(***************************************************************************)
(* routers/chat.py: the endpoints that name a conversation, each looking   *)
(* it up by id and user.                                                   *)
(***************************************************************************)
\* An exception no handler of the endpoint catches.
ServerError == [status |-> 500, detail |-> "Internal Server Error"]

\* The assistant rows whose search_results hold recipe ids: those of an
\* answer that found recipes.
HasRecipes(row) == ~row.is_user /\ row.content = "I found"

\* get_messages(conversation_id, user_id, db): 404 unless the conversation
\* is there and is the user's, else its rows (fewer than the default limit
\* of 50), the recipes of the assistant rows being fetched again.
GetMessages(user_id, conversation_id, fault) ==
    LET conversation == db.conversations[conversation_id]
        rows == db.messages[conversation_id]
    IN  /\ request' = [op |-> "get_messages", user_id |-> user_id,
                       conversation_id |-> conversation_id]
        /\ response' =
                IF conversation = None \/ conversation.user_id # user_id THEN NotFound
                ELSE IF fault = "details" /\ \E i \in 1..Len(rows) : HasRecipes(rows[i])
                THEN ServerError
                ELSE [status |-> 200, messages |-> rows]
        /\ processed' = NotProcessed
        /\ llm_calls' = <<>>
        /\ search_call' = NoSearch
        /\ UNCHANGED <<conversation_states, db, mvars, rvars, tvars>>

\* A slip: the conversation looked up by its id alone.
DeleteConversation_AnyUser(user_id, conversation_id) ==
    LET conversation == db.conversations[conversation_id]
    IN  /\ request' = [op |-> "delete_conversation", user_id |-> user_id,
                       conversation_id |-> conversation_id]
        /\ IF conversation = None
           THEN /\ response' = NotFound
                /\ UNCHANGED <<conversation_states, db>>
           ELSE /\ response' = [status |-> 200, message |-> "Conversation deleted"]
                /\ db' = [db EXCEPT !.conversations[conversation_id].is_active = FALSE]
                /\ conversation_states' =
                        clear_conversation_state(conversation_states, conversation_id)
        /\ processed' = NotProcessed
        /\ llm_calls' = <<>>
        /\ search_call' = NoSearch
        /\ UNCHANGED <<mvars, rvars, tvars>>

\* delete_conversation(conversation_id, user_id, db): 404 unless the
\* conversation is there and is the user's, else is_active = False is
\* committed and the state cleared.
DeleteConversation(user_id, conversation_id) ==
    LET conversation == db.conversations[conversation_id]
    IN  /\ request' = [op |-> "delete_conversation", user_id |-> user_id,
                       conversation_id |-> conversation_id]
        /\ IF conversation = None \/ conversation.user_id # user_id
           THEN /\ response' = NotFound
                /\ UNCHANGED <<conversation_states, db>>
           ELSE /\ response' = [status |-> 200, message |-> "Conversation deleted"]
                /\ db' = [db EXCEPT !.conversations[conversation_id].is_active = FALSE]
                /\ conversation_states' =
                        clear_conversation_state(conversation_states, conversation_id)
        /\ processed' = NotProcessed
        /\ llm_calls' = <<>>
        /\ search_call' = NoSearch
        /\ UNCHANGED <<mvars, rvars, tvars>>

Reading ==
    \E u \in Users, c \in ConvIds, fault \in {"none", "details"} : GetMessages(u, c, fault)

Deleting == \E u \in Users, c \in ConvIds : DeleteConversation(u, c)

\* The completions the messages of this model get: one query or a failure,
\* one set of tags, a verdict.
AccessQueries == {RecipeQuery("pasta", <<1>>, <<>>, DefaultCount), ClientError}
AccessTags == {[EmptyTags EXCEPT !.CUISINES_REGIONAL = "Italian"]}
AccessContinueReplies ==
    {[continue |-> TRUE, reason |-> "refines"], [continue |-> FALSE, reason |-> "new topic"]}

AccessNew ==
    \E u \in Users, m \in ChatMessages :
    \E q_reply \in AccessQueries :
    \E t_reply \in TagInputs("first", q_reply, AccessTags) :
        ChatNew(u, m, q_reply, t_reply)

AccessExisting ==
    \E u \in Users, c \in ConvIds, m \in ChatMessages :
        LET st == get_or_create_state(conversation_states, c)
            mine == db.conversations[c] # None /\ db.conversations[c].user_id = u
        IN  \E c_reply \in (IF mine /\ st.turn_counter # 0
                            THEN AccessContinueReplies ELSE {NoCall}) :
            \E q_reply \in (IF mine THEN AccessQueries ELSE {NoCall}) :
            \E t_reply \in (IF mine
                            THEN TagInputs(Branch(st, c_reply), q_reply, AccessTags)
                            ELSE {NoCall}) :
            \E order \in (IF mine THEN OrderInputs(st, Branch(st, c_reply), q_reply)
                          ELSE {[i \in 1..NumTerms |-> i]}) :
                ChatExisting(u, c, m, c_reply, q_reply, t_reply, order)

NextAccess == AccessNew \/ AccessExisting \/ Resetting \/ Reading \/ Deleting

SpecAccess == Init /\ [][NextAccess]_vars

(***************************************************************************)
(* The merge of terms that differ only in letter case: one ingredient      *)
(* name as the LLM may spell it, 'tomatoes' and 'Tomatoes'.                *)
(***************************************************************************)
CaseTerms == {1, 1 + CaseShift}

\* The orders in which a set of the two spellings may be iterated.
CaseOrders == {<<1, 1 + CaseShift>>, <<1 + CaseShift, 1>>}

CaseLists ==
    {p \in SeqsUpTo(CaseTerms, MaxIngr) \X SeqsUpTo(CaseTerms, MaxIngr) :
        Len(p[1]) + Len(p[2]) <= MaxIngr}

\* Schema-valid RecipeQuery objects over the two spellings.
CaseQueries ==
    {RecipeQuery("pasta", p[1], p[2], n) : p \in CaseLists, n \in Counts}

InitCase ==
    /\ base \in CaseQueries
    /\ patch = None
    /\ merge_result = None
    /\ InitConversations
    /\ InitEndpoint

\* The next message's extraction arrives.
CasePatch ==
    /\ patch = None
    /\ patch' \in CaseQueries
    /\ UNCHANGED <<base, merge_result, cvars, evars, rvars, tvars>>

\* merge_result = self.merge_recipe_query_v2(state.current_recipe_query, patch_query)
CaseCall ==
    /\ patch # None
    /\ merge_result = None
    /\ merge_result' \in {merge_recipe_query_v2(base, patch, order) : order \in CaseOrders}
    /\ UNCHANGED <<base, patch, cvars, evars, rvars, tvars>>

NextCase == CasePatch \/ CaseCall \/ MergeStore

SpecCase == InitCase /\ [][NextCase]_vars

(***************************************************************************)
(* The search on its own: a first search, and the searches of the queries  *)
(* that later turns merge one more ingredient into.                        *)
(***************************************************************************)
\* Most ingredient entries of a query that is searched.
MaxSearchIngr == 2

\* The ingredient phrases searched: 1 is a variant, 2 is near ingredient 2,
\* 3 is near nothing, 30 is a variant of two ingredients, 50 is a variant
\* that no recipe has.
SearchTerms == {1, 2, 3, 30, 50}
\* The order in which a set of them is iterated.
SearchOrder == <<1, 2, 3, 30, 50>>
\* RecipeQuery.count: fewer than the recipes, and the default.
SearchCounts == {1, DefaultCount}

SearchLists ==
    {p \in SeqsUpTo(SearchTerms, MaxSearchIngr) \X SeqsUpTo(SearchTerms, MaxSearchIngr) :
        Len(p[1]) + Len(p[2]) <= MaxSearchIngr}

SearchQueries ==
    {RecipeQuery("pasta", p[1], p[2], n) : p \in SearchLists, n \in SearchCounts}

\* No tag; a cuisine that is a tag; a diet that is no tag with a cuisine that
\* two tags are equally near; two pairs of fields that map to one group each.
SearchTags ==
    {EmptyTags,
     [EmptyTags EXCEPT !.CUISINES_REGIONAL = "Italian"],
     [EmptyTags EXCEPT !.DIETS = "keto", !.CUISINES_REGIONAL = "spicy"],
     [EmptyTags EXCEPT !.FREE_OF = "gluten", !.DIETS = "vegetarian",
                       !.DIFFICULTY_SCALE = "hard", !.SCALE = "easy"]}

\* ChatService.search_recipes(recipe_query, tags): the search of the recipe
\* service, its resolver results and the order of its ranking drawn.
SearchRecipes(recipe_query, tags) ==
    \E resolution \in Resolutions(recipe_query, tags) :
    \E ranking \in Rankings(Candidates(resolution), recipe_query.query) :
        /\ search_call' =
                [called |-> TRUE, recipe_query |-> recipe_query, tags |-> tags,
                 fault |-> "none", resolution |-> resolution,
                 executed |-> Executed(recipe_query, tags, "none", resolution),
                 outcome |-> search_recipes_ingredients_first(recipe_query, tags, "none",
                                                              ranking, resolution)]
        /\ request' = [op |-> "search_recipes"]
        /\ UNCHANGED <<conversation_states, processed, llm_calls, db, response,
                       mvars, rvars, tvars>>

\* The search of a first turn.
SearchFirst ==
    /\ ~search_call.called
    /\ \E q \in SearchQueries, tags \in SearchTags : SearchRecipes(q, tags)

\* The search of a continuation turn: the patch of the turn names one more
\* ingredient, the merged query is searched with the tags as they are.
SearchMore ==
    /\ search_call.called
    /\ Len(search_call.recipe_query.include_ingredients)
        + Len(search_call.recipe_query.exclude_ingredients) < MaxSearchIngr
    /\ \E t \in SearchTerms :
       \E patch_q \in {RecipeQuery("more", <<t>>, <<>>, DefaultCount),
                       RecipeQuery("more", <<>>, <<t>>, DefaultCount)} :
            SearchRecipes(merge_recipe_query_v2(search_call.recipe_query, patch_q,
                                                SearchOrder).merged_query,
                          search_call.tags)

\* The same query searched once more, the catalog as it is.
SearchAgain ==
    /\ search_call.called
    /\ SearchRecipes(search_call.recipe_query, search_call.tags)

NextSearch == SearchFirst \/ SearchMore \/ SearchAgain

SpecSearch == Init /\ [][NextSearch]_vars

(***************************************************************************)
(* The resolvers on their own: calls of them, one after the other, on an   *)
(* unchanged catalog.                                                      *)
(***************************************************************************)
\* Most resolver calls followed.
MaxResolverCalls == 2

\* Phrases: a variant, the same with a capital, a phrase near one
\* ingredient, one near none, one equally near two, a variant of two.
ResolverPhrases == {1, 1 + CaseShift, 2, 3, 4, 30}
\* Tag texts: a tag name with a capital, one equally near two tags, one near
\* one tag, one near none, one as near a tag as the threshold.
ResolverTagTexts == {"Italian", "spicy", "gluten", "keto", "veggie"}

\* resolve_ingredient_to_canonical(ingredient_name)
ResolveIngredient ==
    /\ Len(resolver_calls) < MaxResolverCalls
    /\ \E name \in ResolverPhrases :
       \E result \in resolve_ingredient_to_canonical(name) :
            resolver_calls' = Append(resolver_calls,
                [fn |-> "resolve_ingredient_to_canonical", phrase |-> name,
                 group |-> None, result |-> result])
    /\ UNCHANGED <<cvars, mvars, evars, tvars>>

\* resolve_tag(tag_text, tag_group)
ResolveTag ==
    /\ Len(resolver_calls) < MaxResolverCalls
    /\ \E tag_text \in ResolverTagTexts :
       \E k \in 1..Len(CriticalGroups) :
       \E result \in resolve_tag(tag_text, CriticalGroups[k]) :
            resolver_calls' = Append(resolver_calls,
                [fn |-> "resolve_tag", phrase |-> tag_text,
                 group |-> CriticalGroups[k], result |-> result])
    /\ UNCHANGED <<cvars, mvars, evars, tvars>>

NextResolve == ResolveIngredient \/ ResolveTag

SpecResolve == Init /\ [][NextResolve]_vars

(***************************************************************************)
(* Properties of the merge, checked under SpecMerge.                       *)
(***************************************************************************)
Merged == merge_result.merged_query
Ascending(s) == \A i \in 1..Len(s) - 1 : s[i] < s[i + 1]
Occurrences(s, x) == Cardinality({i \in 1..Len(s) : s[i] = x})

\* C1: whatever the stored query (one that extraction produced included) and
\* whatever the patches merged into it, the merged include_ingredients and
\* exclude_ingredients have no term in common.
C1_MergedDisjoint ==
    merge_result # None => IncludeSet(Merged) \cap ExcludeSet(Merged) = {}

\* C2: merging the patch B again into merge(A, B).merged_query reports no
\* added include, no added exclude and no conflict.
C2_RemergeAddsNothing ==
    merge_result # None =>
        \A order \in HashOrders :
            LET again == merge_recipe_query_v2(Merged, patch, order)
            IN  /\ again.changes.added_includes = <<>>
                /\ again.changes.added_excludes = <<>>
                /\ again.conflicts = <<>>

\* C3: the merged include list is the ascending, duplicate-free enumeration
\* of (base.include + patch.include) - patch.exclude, and the merged exclude
\* list that of (base.exclude + patch.exclude) - patch.include.
C3_MergedLists ==
    merge_result # None =>
        /\ Ascending(Merged.include_ingredients)
        /\ Ascending(Merged.exclude_ingredients)
        /\ IncludeSet(Merged) = (IncludeSet(base) \cup IncludeSet(patch)) \ ExcludeSet(patch)
        /\ ExcludeSet(Merged) = (ExcludeSet(base) \cup ExcludeSet(patch)) \ IncludeSet(patch)

\* A merge that unites, removes duplicates and has to sort.
C3_Witness ==
    /\ merge_result # None
    /\ base.include_ingredients = <<2>>
    /\ patch.include_ingredients = <<1, 1>>
    /\ Merged.include_ingredients = <<1, 2>>

\* C4: the conflicts are one message for each term of base.include that the
\* patch excludes, one for each term of base.exclude that the patch includes,
\* and nothing else; the moved terms are gone from the list they left.
C4_Conflicts ==
    merge_result # None =>
        LET toExclude == IncludeSet(base) \cap ExcludeSet(patch)
            toInclude == ExcludeSet(base) \cap IncludeSet(patch)
            c == merge_result.conflicts
        IN  /\ \A t \in toExclude :
                    /\ Occurrences(c, ConflictMsg(t, "include to exclude")) = 1
                    /\ t \notin IncludeSet(Merged)
            /\ \A t \in toInclude :
                    /\ Occurrences(c, ConflictMsg(t, "exclude to include")) = 1
                    /\ t \notin ExcludeSet(Merged)
            /\ Len(c) = Cardinality(toExclude) + Cardinality(toInclude)

\* One patch that moves a term each way.
C4_Witness ==
    /\ merge_result # None
    /\ Len(merge_result.conflicts) = 2
    /\ IncludeSet(base) \cap ExcludeSet(patch) # {}
    /\ ExcludeSet(base) \cap IncludeSet(patch) # {}

(***************************************************************************)
(* Properties of process_user_message, checked under Spec.  A step that    *)
(* runs it is read off request', the state it found off the unprimed       *)
(* conversation_states, the calls it made off llm_calls'.                  *)
(***************************************************************************)
TurnStep == request'.op = "process_user_message"
Before == get_or_create_state(conversation_states, request'.conversation_id)
After == conversation_states'[request'.conversation_id]
Message == request'.user_message
Current == conversation_states[request.conversation_id]

\* The classifier was called and answered with this value of "continue".
Classified(calls, value) ==
    /\ Len(calls) >= 1
    /\ calls[1].fn = "check_continue"
    /\ calls[1].reply \notin ErrorReplies
    /\ GetContinue(calls[1].reply) = value

\* The classifier was called and the call failed.
ClassifierFailed(calls) ==
    /\ Len(calls) >= 1
    /\ calls[1].fn = "check_continue"
    /\ calls[1].reply \in ErrorReplies

\* Call i was this extraction, of this message alone.
Extracted(calls, i, fn, m) ==
    /\ Len(calls) >= i
    /\ calls[i].fn = fn
    /\ calls[i].msg = m
    /\ DOMAIN calls[i] = {"fn", "msg", "reply"}

\* C5: on a continuation turn (history non-empty, the classifier answers
\* continue = true, the patch extraction returns) process_user_message makes
\* two calls, the classifier and the query extraction of the new message
\* alone; stores the merge of the current query with that patch; leaves
\* current_tags as they were; appends the message to history; adds exactly 1
\* to turn_counter; and returns is_continuation = true with the merge's
\* changes and conflicts.
C5_ContinuationTurn ==
    [][(TurnStep /\ Classified(llm_calls', TRUE) /\ processed'.kind = "returned") =>
        /\ Before.history # <<>>
        /\ Len(llm_calls') = 2
        /\ llm_calls'[1].conversation_history = Before.history
        /\ llm_calls'[1].current_message = Message
        /\ Extracted(llm_calls', 2, "extract_recipe_query", Message)
        /\ \E order \in HashOrders :
             LET r == merge_recipe_query_v2(Before.current_recipe_query,
                                            llm_calls'[2].reply, order)
             IN  /\ After.current_recipe_query = r.merged_query
                 /\ processed'.query = r.merged_query
                 /\ processed'.changes = r.changes
                 /\ processed'.conflicts = r.conflicts
        /\ After.current_tags = Before.current_tags
        /\ processed'.tags = Before.current_tags
        /\ After.history = Append(Before.history, Message)
        /\ After.turn_counter = Before.turn_counter + 1
        /\ processed'.is_continuation = TRUE]_vars

\* A second turn that continued the first and moved a term.
C5_Witness ==
    /\ request.op = "process_user_message"
    /\ Classified(llm_calls, TRUE)
    /\ processed.kind = "returned"
    /\ processed.is_continuation
    /\ processed.conflicts # <<>>
    /\ Current.turn_counter = 2
    /\ Len(Current.history) = 2

\* C6: on a turn where the classifier answers continue = false (and the two
\* extractions return) history becomes exactly the new message, the current
\* query and the current tags become the extractions of that message alone,
\* so that no term of the previous query is kept unless the extraction of the
\* new message has it, turn_counter becomes 1 and is_continuation = false is
\* returned.
C6_ResetTurn ==
    [][(TurnStep /\ Classified(llm_calls', FALSE) /\ processed'.kind = "returned") =>
        /\ After.history = <<Message>>
        /\ Len(llm_calls') = 3
        /\ Extracted(llm_calls', 2, "extract_recipe_query", Message)
        /\ Extracted(llm_calls', 3, "extract_tags", Message)
        /\ After.current_recipe_query = llm_calls'[2].reply
        /\ After.current_tags = llm_calls'[3].reply
        /\ After.turn_counter = 1
        /\ processed'.is_continuation = FALSE
        /\ processed'.query = After.current_recipe_query
        /\ processed'.tags = After.current_tags
        /\ processed'.changes = None
        /\ processed'.conflicts = None]_vars

\* A reset of a conversation that had two messages and an ingredient: one
\* message and no ingredient are left.
C6_Witness ==
    /\ request.op = "process_user_message"
    /\ Classified(llm_calls, FALSE)
    /\ processed.kind = "returned"
    /\ Len(llm_calls[1].conversation_history) = 2
    /\ Current.history = <<request.user_message>>
    /\ Current.turn_counter = 1
    /\ Current.current_recipe_query.include_ingredients = <<>>
    /\ Current.current_recipe_query.exclude_ingredients = <<>>

\* C7: a message that finds turn_counter = 0 is processed without a call of
\* the classifier; when the extractions return, the query and the tags
\* extracted from it are the current state, history is exactly that message,
\* turn_counter is 1 and is_continuation = false is returned.
C7_FirstMessage ==
    [][(TurnStep /\ Before.turn_counter = 0) =>
        /\ \A i \in 1..Len(llm_calls') : llm_calls'[i].fn # "check_continue"
        /\ processed'.kind = "returned" =>
            /\ Extracted(llm_calls', 1, "extract_recipe_query", Message)
            /\ Extracted(llm_calls', 2, "extract_tags", Message)
            /\ After.current_recipe_query = llm_calls'[1].reply
            /\ After.current_tags = llm_calls'[2].reply
            /\ After.history = <<Message>>
            /\ After.turn_counter = 1
            /\ processed'.is_continuation = FALSE]_vars

\* C8: when the continuation check fails on a conversation with
\* turn_counter >= 1, the failure does not leave process_user_message, the
\* history is replaced by the new message as on a reset, and the turn whose
\* extractions return ends with turn_counter = 1 and is_continuation = false.
C8_CheckFailureResets ==
    [][(TurnStep /\ ClassifierFailed(llm_calls')) =>
        /\ Before.turn_counter >= 1
        /\ processed' # Exception("check_continue")
        /\ After.history = <<Message>>
        /\ Extracted(llm_calls', 2, "extract_recipe_query", Message)
        /\ processed'.kind = "returned" =>
            /\ Extracted(llm_calls', 3, "extract_tags", Message)
            /\ After.current_recipe_query = llm_calls'[2].reply
            /\ After.current_tags = llm_calls'[3].reply
            /\ After.turn_counter = 1
            /\ processed'.is_continuation = FALSE
            /\ processed'.changes = None]_vars

\* A conversation of two turns whose third check failed: it is back at one
\* message and turn 1.
C8_Witness ==
    /\ request.op = "process_user_message"
    /\ ClassifierFailed(llm_calls)
    /\ processed.kind = "returned"
    /\ ~processed.is_continuation
    /\ Len(llm_calls[1].conversation_history) = 2
    /\ Current.history = <<request.user_message>>
    /\ Current.turn_counter = 1

(***************************************************************************)
(* Properties of POST /chat, checked under SpecChat.                       *)
(***************************************************************************)
\* An extraction call of the last request failed.
ExtractionFailed(calls) ==
    \E i \in 1..Len(calls) :
        /\ calls[i].fn \in {"extract_recipe_query", "extract_tags"}
        /\ calls[i].reply \in ErrorReplies

\* The fault lies on the filter statement, or on the ranking statement and
\* the search of this query and these tags comes to rank.
FaultReached(resolution, fault) ==
    \/ fault = "filter"
    \/ fault = "rank" /\ Candidates(resolution) # {}

\* C9: when the query or the tag extraction of a turn fails (the LLM client
\* raises, or the completion is malformed), the failure does not leave
\* process_user_message as an exception and the request is not answered with
\* an error: the caller gets a degraded but regular answer.
C9_ExtractionFailureDegrades ==
    (request.op = "chat" /\ ExtractionFailed(llm_calls)) =>
        /\ processed.kind # "raised"
        /\ response.status = 200

\* C10: when the filter or the ranking statement of
\* search_recipes_ingredients_first fails in the storage layer, the search gives total_found = 0 and recipe_ids = [] to its
\* caller and the request is answered regularly, with no recipe.
C10_StorageErrorIsEmptyResult ==
    (/\ request.op = "chat"
     /\ search_call.called
     /\ FaultReached(search_call.resolution, search_call.fault)) =>
        /\ ~search_call.outcome.raised
        /\ search_call.outcome.value.total_found = 0
        /\ search_call.outcome.value.recipe_ids = <<>>
        /\ response.status = 200
        /\ response.recipes = <<>>

\* C11: a reset of a conversation by its user leaves no state of it in the
\* ChatService and leaves its row as it was; the next message on that id is
\* not answered 404 and is processed without a call of the classifier; when
\* its extractions return, history is that message alone, query and tags are
\* what was extracted from it, turn_counter is 1 and is_continuation = false.
C11_ExplicitReset ==
    [][/\ (request'.op = "reset_conversation" /\ response'.status = 200) =>
            /\ conversation_states'[request'.conversation_id] = None
            /\ db' = db
       /\ (/\ request.op = "reset_conversation"
           /\ response.status = 200
           /\ request'.op = "chat"
           /\ request'.user_id = request.user_id
           /\ request'.conversation_id = request.conversation_id) =>
            /\ response' # NotFound
            /\ \A i \in 1..Len(llm_calls') : llm_calls'[i].fn # "check_continue"
            /\ processed'.kind = "returned" =>
                /\ Extracted(llm_calls', 1, "extract_recipe_query", request'.message)
                /\ Extracted(llm_calls', 2, "extract_tags", request'.message)
                /\ After.current_recipe_query = llm_calls'[1].reply
                /\ After.current_tags = llm_calls'[2].reply
                /\ After.history = <<request'.message>>
                /\ After.turn_counter = 1
                /\ processed'.is_continuation = FALSE]_vars

\* A conversation with two stored exchanges was reset: its rows are there,
\* its state is gone.
C11_Witness ==
    /\ request.op = "reset_conversation"
    /\ response.status = 200
    /\ Len(db.messages[request.conversation_id]) = 4
    /\ conversation_states[request.conversation_id] = None

(***************************************************************************)
(* Properties of two conversations, checked under SpecTwo.                 *)
(***************************************************************************)
\* C12: a turn or a clearing for one conversation id leaves the state
\* (history, turn_counter, current query, current tags) held for every other
\* conversation id as it was, whatever the order of the two conversations'
\* turns.
C12_OtherConversationsUnchanged ==
    [][request'.op \in {"process_user_message", "clear_conversation_state"} =>
        \A b \in DOMAIN conversation_states :
            b # request'.conversation_id =>
                conversation_states'[b] = conversation_states[b]]_vars

\* Conversation 2 was just processed while conversation 1 holds another
\* query and a longer history.
C12_Witness ==
    /\ request.op = "process_user_message"
    /\ request.conversation_id = 2
    /\ processed.kind = "returned"
    /\ conversation_states[1] # None
    /\ conversation_states[1].turn_counter = 2
    /\ conversation_states[2].turn_counter = 1
    /\ conversation_states[1].current_recipe_query # conversation_states[2].current_recipe_query

(***************************************************************************)
(* Further properties of the merge, checked under SpecMerge.               *)
(***************************************************************************)
\* C13: the merged count is the patch's, and count_changed is recorded,
\* exactly when patch.count is not 5 and is not base.count; in every other
\* case, a patch count of 5 against another base count included, the merged
\* count is the base's and count_changed stays unset.
C13_CountSentinel ==
    merge_result # None =>
        IF patch.count # 5 /\ patch.count # base.count
        THEN /\ Merged.count = patch.count
             /\ merge_result.changes.count_changed # None
             /\ merge_result.changes.count_changed = <<base.count, patch.count>>
        ELSE /\ Merged.count = base.count
             /\ merge_result.changes.count_changed = None

\* A patch with count 5 merged into a base with count 7.
C13_Witness ==
    /\ merge_result # None
    /\ base.count = 7
    /\ patch.count = 5
    /\ Merged.count = 7

\* C14: the merge never changes the text: the merged query has the text of
\* its base, so the stored query keeps the text it was first given through
\* any number of merges, each stored as the base of the next; and the call
\* leaves its base and patch arguments as they were.
C14_TextKept ==
    [][/\ base'.query = base.query
       /\ (merge_result = None /\ merge_result' # None) =>
            /\ base' = base
            /\ patch' = patch
            /\ merge_result'.merged_query.query = base.query]_vars

\* A patch with another text and a new ingredient was merged.
C14_Witness ==
    /\ merge_result # None
    /\ patch.query # base.query
    /\ Merged.query = base.query
    /\ Merged.include_ingredients # base.include_ingredients

\* Two terms that differ at most in letter case.
SameTerm(t, u) == Lower(t) = Lower(u)

\* No two entries of the list differ only in letter case.
CaseDistinct(s) ==
    \A i, j \in 1..Len(s) : (i # j /\ SameTerm(s[i], s[j])) => s[i] = s[j]

\* C15: the merge treats two terms that differ only in letter case as one
\* term: an include of the base that the patch excludes in another spelling
\* is reported as an include-to-exclude conflict and is no longer included,
\* and (the lists of the base and of the patch having no two such entries)
\* neither merged list has two entries that differ only in case.
C15_CaseInsensitiveMerge ==
    merge_result # None =>
        /\ \A t \in IncludeSet(base), u \in ExcludeSet(patch) :
                SameTerm(t, u) =>
                    /\ t \notin IncludeSet(Merged)
                    /\ \E i \in 1..Len(merge_result.conflicts) :
                            merge_result.conflicts[i] = ConflictMsg(t, "include to exclude")
        /\ (/\ CaseDistinct(base.include_ingredients)
            /\ CaseDistinct(base.exclude_ingredients)
            /\ CaseDistinct(patch.include_ingredients)
            /\ CaseDistinct(patch.exclude_ingredients)) =>
                /\ CaseDistinct(Merged.include_ingredients)
                /\ CaseDistinct(Merged.exclude_ingredients)

(***************************************************************************)
(* Properties of the search, checked under SpecSearch, and of the          *)
(* resolvers, checked under SpecResolve.                                   *)
(***************************************************************************)
\* The search made and what it returned.
Searched == search_call.called /\ ~search_call.outcome.raised
Found == search_call.outcome.value
\* The ids the search ranked: those it has a score for.
Scored(call) == DOMAIN call.outcome.value.embedding_scores

\* C16: when the filter of a search matches no recipe, the search returns
\* total_found 0 with no recipe id and no score, and neither encodes the
\* query text nor sends the ranking statement.
C16_EmptyFilterSkipsRanking ==
    (Searched /\ Candidates(search_call.resolution) = {}) =>
        /\ Found.total_found = 0
        /\ Found.recipe_ids = <<>>
        /\ DOMAIN Found.embedding_scores = {}
        /\ \A i \in 1..Len(search_call.executed) :
                search_call.executed[i] \notin {"encode", "rank"}

\* A search of two include ingredients that no recipe has both of.
C16_Witness ==
    /\ Searched
    /\ Len(search_call.recipe_query.include_ingredients) = 2
    /\ Candidates(search_call.resolution) = {}
    /\ search_call.executed = <<"filter">>
    /\ Found.total_found = 0

\* C17: the recipe_ids of a search are the first min(count, number of
\* candidates) ids of the candidates in an order of descending similarity
\* to the query text; total_found is the number of all candidates, so at
\* least the number of recipe_ids; every candidate has a score.
C17_TopOfRanking ==
    Searched =>
        LET candidates == Candidates(search_call.resolution)
            ids == Found.recipe_ids
            sim(id) == RecipeSimilarity(search_call.recipe_query.query, id)
        IN  /\ Len(ids) = Min(search_call.recipe_query.count, Cardinality(candidates))
            /\ ToSet(ids) \subseteq candidates
            /\ \A i, j \in 1..Len(ids) : i < j => ids[i] # ids[j] /\ sim(ids[i]) >= sim(ids[j])
            /\ \A c \in candidates \ ToSet(ids) : \A i \in 1..Len(ids) : sim(ids[i]) >= sim(c)
            /\ Found.total_found = Cardinality(candidates)
            /\ Found.total_found >= Len(ids)
            /\ DOMAIN Found.embedding_scores = candidates
            /\ \A c \in candidates : Found.embedding_scores[c] = sim(c)

\* A search with count 1 that three recipes are candidates of.
C17_Witness ==
    /\ Searched
    /\ search_call.recipe_query.count = 1
    /\ Found.total_found = 3
    /\ Len(Found.recipe_ids) = 1

\* The next search is of the query of this one with one more term in the list.
AddsTerm(before, after, t) ==
    /\ t \notin ToSet(before)
    /\ ToSet(after) = ToSet(before) \cup {t}

\* No variant of anything the phrase resolves to is an ingredient of a recipe.
InNoRecipe(t) ==
    \A resolved \in resolve_ingredient_to_canonical(t) :
    \A r \in RecipeTable : \A k \in 1..Len(r.ingredients) :
        Lower(r.ingredients[k]) \notin LoweredVariants(resolved)

\* C18: with the catalog and the tags as they are, a search of the query with
\* one more exclude ingredient, of which no variant is in any recipe, finds
\* as many recipes as the search before; a search of the query with one more
\* include ingredient has its candidates among those of the search before,
\* and finds no more.
C18_Monotone ==
    [][(/\ search_call.called /\ search_call'.called
        /\ ~search_call.outcome.raised /\ ~search_call'.outcome.raised
        /\ search_call'.tags = search_call.tags) =>
        LET q == search_call.recipe_query
            r == search_call'.recipe_query
        IN  \A t \in SearchTerms :
            /\ (/\ AddsTerm(q.exclude_ingredients, r.exclude_ingredients, t)
                /\ ToSet(r.include_ingredients) = ToSet(q.include_ingredients)
                /\ InNoRecipe(t)) =>
                    search_call'.outcome.value.total_found
                        = search_call.outcome.value.total_found
            /\ (/\ AddsTerm(q.include_ingredients, r.include_ingredients, t)
                /\ ToSet(r.exclude_ingredients) = ToSet(q.exclude_ingredients)) =>
                    /\ Scored(search_call') \subseteq Scored(search_call)
                    /\ search_call'.outcome.value.total_found
                            <= search_call.outcome.value.total_found]_vars

\* C19: two calls of a resolver with the same phrase (and group), the catalog
\* unchanged between them, return the same canonical entry with the same
\* confidence, or both none.
C19_ResolverDeterministic ==
    \A i, j \in 1..Len(resolver_calls) :
        (/\ resolver_calls[i].fn = resolver_calls[j].fn
         /\ resolver_calls[i].phrase = resolver_calls[j].phrase
         /\ resolver_calls[i].group = resolver_calls[j].group) =>
            resolver_calls[i].result = resolver_calls[j].result

\* The variants of the canonical ingredient, as the catalog has them.
VariantsOf(canonical_id) == {v[2] : v \in {w \in IngredientVariants : w[1] = canonical_id}}

\* The recipe has an ingredient that is a variant of the resolved entry,
\* letter case apart.
HasVariant(recipe, resolved) ==
    \E v \in VariantsOf(resolved.canonical_id) :
    \E k \in 1..Len(recipe.ingredients) :
        Lower(recipe.ingredients[k]) = Lower(v)

C22_StableRanking ==
    [][(/\ search_call.called /\ search_call'.called
        /\ ~search_call.outcome.raised /\ ~search_call'.outcome.raised
        /\ search_call'.recipe_query = search_call.recipe_query
        /\ search_call'.tags = search_call.tags
        /\ search_call'.resolution = search_call.resolution) =>
            search_call'.outcome.value.recipe_ids
                = search_call.outcome.value.recipe_ids]_vars

\* The greatest of a non-empty set of numbers.
Greatest(S) == CHOOSE x \in S : \A y \in S : x >= y

\* What the claim lets a call of resolve_ingredient_to_canonical return.
IngredientAnswerOk(phrase, result) ==
    LET exact == {v[1] : v \in {w \in IngredientVariants : Lower(w[2]) = Lower(phrase)}}
        best == Greatest({IngredientSimilarity(phrase, c) : c \in CanonicalIds})
    IN  IF exact # {}
        THEN /\ result # None
             /\ result.confidence = ExactConfidence
             /\ result.method = "exact_match"
             /\ result.canonical_id \in exact
        ELSE IF best > IngredientThreshold
        THEN /\ result # None
             /\ result.method = "embedding_match"
             /\ result.confidence = best
             /\ IngredientSimilarity(phrase, result.canonical_id) = best
        ELSE result = None

\* What the claim lets a call of resolve_tag with a group return.
TagAnswerOk(tag_text, group, result) ==
    LET in_group == {t \in TagTable : t.group_name = group}
        exact == {t.tag_name : t \in {x \in in_group :
                                        LowerText(x.tag_name) = LowerText(tag_text)}}
        best == Greatest({TagSimilarity(tag_text, t.tag_name) : t \in in_group})
    IN  IF exact # {}
        THEN /\ result # None
             /\ result.confidence = ExactConfidence
             /\ result.method = "exact_match"
             /\ result.tag_name \in exact
        ELSE IF best > TagThreshold
        THEN /\ result # None
             /\ result.method = "embedding_match"
             /\ result.confidence = best
             /\ result.group_name = group
             /\ TagSimilarity(tag_text, result.tag_name) = best
        ELSE result = None

\* C23: a resolver call returns confidence 1.0 with the exact method whenever
\* the phrase is, letter case apart, a variant (a tag name of the group);
\* else a nearest entry with its similarity as confidence if that similarity
\* is strictly above the threshold (0.65 ingredients, 0.70 tags); else none,
\* also when the best similarity equals the threshold.
C23_ExactThenThreshold ==
    \A i \in 1..Len(resolver_calls) :
        LET c == resolver_calls[i]
        IN  IF c.fn = "resolve_ingredient_to_canonical"
            THEN IngredientAnswerOk(c.phrase, c.result)
            ELSE TagAnswerOk(c.phrase, c.group, c.result)

\* An ingredient phrase exactly as near as the threshold resolved to none,
\* then a tag text above the threshold resolved to its nearest tag.
C23_Witness ==
    /\ Len(resolver_calls) = 2
    /\ resolver_calls[1].fn = "resolve_ingredient_to_canonical"
    /\ resolver_calls[1].phrase = 3
    /\ resolver_calls[1].result = None
    /\ resolver_calls[2].fn = "resolve_tag"
    /\ resolver_calls[2].phrase = "gluten"
    /\ resolver_calls[2].result # None
    /\ resolver_calls[2].result.method = "embedding_match"

\* C24: when two fields of the tags map to one group, the later field in
\* the order of the schema stays and the earlier one filters nothing: with
\* FREE_OF and DIETS both given, the dietary critical tag is resolved from
\* the DIETS value and the candidates are those of the search without the
\* FREE_OF value; with DIFFICULTY_SCALE and SCALE both given, the group has
\* the SCALE value.  A search applies at most one critical tag for each of
\* the two critical groups.
C24_LaterFieldWins ==
    Searched =>
        LET tags == search_call.tags
            mapped_tags == map_tags_for_db(tags)
            res == search_call.resolution
        IN  /\ (tags.FREE_OF # "" /\ tags.DIETS # "") =>
                    /\ mapped_tags["DIETARY_HEALTH"] = tags.DIETS
                    /\ res.tags[1] \in resolve_tag(tags.DIETS, "DIETARY_HEALTH")
                    /\ res \in Resolutions(search_call.recipe_query,
                                           [tags EXCEPT !.FREE_OF = ""])
            /\ (tags.DIFFICULTY_SCALE # "" /\ tags.SCALE # "") =>
                    mapped_tags["DIFFICULTY_SCALE"] = tags.SCALE
            /\ Len(res.tags) = 2
            /\ Len(CriticalTags(res)) <= 2
            /\ \A k \in 1..Len(res.tags) :
                    res.tags[k] \notin {NoCall, None} =>
                        res.tags[k].group_name = CriticalGroups[k]

\* A search with FREE_OF "gluten" and DIETS "vegetarian": the vegetarian
\* recipe, which is not gluten-free, is its candidate.
C24_Witness ==
    /\ Searched
    /\ search_call.tags.FREE_OF = "gluten"
    /\ search_call.tags.DIETS = "vegetarian"
    /\ search_call.recipe_query.include_ingredients = <<>>
    /\ search_call.recipe_query.exclude_ingredients = <<>>
    /\ search_call.resolution.tags[1].tag_name = "Vegetarian"
    /\ Scored(search_call) = {1}

\* C25: while every call of the LLM answers, whatever the sequence of first
\* turns, continuations and resets, the history of a conversation is as long
\* as its turn_counter.
C25_HistoryCountsTurns ==
    \A c \in ConvIds :
        conversation_states[c] # None =>
            Len(conversation_states[c].history) = conversation_states[c].turn_counter

\* A continuation has run: two messages, two turns.
C25_Witness ==
    /\ request.op = "process_user_message"
    /\ processed.kind = "returned"
    /\ processed.is_continuation
    /\ conversation_states[request.conversation_id].turn_counter = 2
    /\ Len(conversation_states[request.conversation_id].history) = 2

\* C26: a run of process_user_message that extract_recipe_query or
\* extract_tags leaves with an exception leaves the state of the conversation
\* as it found it: history, turn_counter, query and tags.
C26_RaisedExtractionKeepsState ==
    [][(/\ TurnStep
        /\ processed'.kind = "raised"
        /\ processed'.fn \in {"extract_recipe_query", "extract_tags"})
            => After = Before]_vars

\* C27: a conversation with turn_counter >= 1 has a query and tags, also
\* after a turn that an extraction left with an exception; no continuation
\* finds the base of its merge missing, and no search is called without a
\* query or without tags.
C27_CountedTurnHasQueryAndTags ==
    /\ \A c \in ConvIds :
            (conversation_states[c] # None /\ conversation_states[c].turn_counter >= 1) =>
                /\ conversation_states[c].current_recipe_query # None
                /\ conversation_states[c].current_tags # None
    /\ processed # Exception("merge_recipe_query_v2")
    /\ search_call.called => search_call.recipe_query # None /\ search_call.tags # None

\* A reset of a counted conversation whose tag extraction raised.
C27_Witness ==
    /\ request.op = "chat"
    /\ processed = Exception("extract_tags")
    /\ response = InternalError
    /\ \E c \in ConvIds :
            /\ conversation_states[c] # None
            /\ conversation_states[c].turn_counter >= 1
            /\ conversation_states[c].current_recipe_query # None
            /\ conversation_states[c].current_tags # None

\* C28: the change record of a merge agrees with the merged query: what it
\* reports as added to a list is in that list of the merged query, what it
\* reports as removed from a list is not.
C28_ChangesAgreeWithMerged ==
    merge_result # None =>
        /\ ToSet(merge_result.changes.added_includes) \subseteq IncludeSet(Merged)
        /\ ToSet(merge_result.changes.added_excludes) \subseteq ExcludeSet(Merged)
        /\ ToSet(merge_result.changes.removed_includes) \cap IncludeSet(Merged) = {}
        /\ ToSet(merge_result.changes.removed_excludes) \cap ExcludeSet(Merged) = {}

\* The request has a conversation id (a request to chat may have none).
NamesConversation(req) == ToString(req.conversation_id) # ToString(None)

\* C29: a request to chat, get_messages, delete_conversation or
\* reset_conversation that names a conversation which is not there for the
\* user is answered 404, and leaves the state of the conversation, its rows
\* and its is_active as they were.
C29_ForeignRequestChangesNothing ==
    [][(/\ request'.op \in {"chat", "get_messages", "delete_conversation",
                            "reset_conversation"}
        /\ NamesConversation(request')
        /\ \/ db.conversations[request'.conversation_id] = None
           \/ db.conversations[request'.conversation_id].user_id # request'.user_id)
            => /\ response' = NotFound
               /\ conversation_states' = conversation_states
               /\ db' = db]_vars

\* The other user asks to delete a conversation that has a state and rows.
C29_Witness ==
    /\ request.op = "delete_conversation"
    /\ response = NotFound
    /\ db.conversations[request.conversation_id] # None
    /\ db.conversations[request.conversation_id].user_id # request.user_id
    /\ db.conversations[request.conversation_id].is_active
    /\ db.messages[request.conversation_id] # <<>>
    /\ conversation_states[request.conversation_id] # None

\* The state a conversation has for the next message: its own, or the one
\* get_or_create_state would make.
StateOf(states, c) == get_or_create_state(states, c)

\* C30: a request to chat moves the rows of the messages and the state of
\* the conversation together: answered with an error, it stores no row and
\* leaves every state (history, turn_counter, query, tags) as it was;
\* answered regularly, it stores its message and the answer after the rows
\* that were there, and the state is one turn further: the message is the
\* last of the history and the turn is counted.
C30_RowsAndStateTogether ==
    [][request'.op = "chat" =>
        IF response'.status # 200
        THEN /\ db'.messages = db.messages
             /\ \A c \in ConvIds :
                    StateOf(conversation_states', c) = StateOf(conversation_states, c)
        ELSE LET c == response'.conversation_id
                 before == StateOf(conversation_states, c)
                 after == conversation_states'[c]
             IN  /\ Len(db'.messages[c]) = Len(db.messages[c]) + 2
                 /\ SubSeq(db'.messages[c], 1, Len(db.messages[c])) = db.messages[c]
                 /\ db'.messages[c][Len(db.messages[c]) + 1] =
                        MessageRow(request'.message, TRUE)
                 /\ ~db'.messages[c][Len(db.messages[c]) + 2].is_user
                 /\ after # None
                 /\ after.history # <<>>
                 /\ after.history[Len(after.history)] = request'.message
                 /\ after.turn_counter =
                        IF processed'.is_continuation THEN before.turn_counter + 1 ELSE 1
                 /\ after.current_recipe_query = processed'.query
                 /\ after.current_tags = processed'.tags]_vars

(***************************************************************************)
(* Properties of two runs on one conversation, checked under               *)
(* SpecConcurrent.                                                         *)
(***************************************************************************)
\* The state that the run of message a and then the run of message b leave,
\* each from its first statement to its return, with the verdicts given.
SerialState(initial, a, b, va, vb) ==
    LET s0 == IF initial = None THEN NewState ELSE initial
        s1 == Dispatch(s0, TaskMessage(a), TaskVerdict(va), TaskQuery(TaskMessage(a)),
                       TaskTags(TaskMessage(a)), TaskOrder).state
    IN  Dispatch(s1, TaskMessage(b), TaskVerdict(vb), TaskQuery(TaskMessage(b)),
                 TaskTags(TaskMessage(b)), TaskOrder).state

\* The states the two serial orders of the runs leave, whatever the verdicts.
SerialStates(initial) ==
    {SerialState(initial, o[1], o[2], va, vb) :
        o \in {p \in Tasks \X Tasks : p[1] # p[2]}, va \in BOOLEAN, vb \in BOOLEAN}

BothDone == \A t \in Tasks : tasks[t].pc = "done"

====
